---- MODULE Spec2Model ----
(***************************************************************************)
(* Game-analysis orchestration and move classification of the chess        *)
(* analyzer (src/src/App.jsx, the App component that starts at line 2105   *)
(* and the helpers in front of it).                                        *)
(*                                                                         *)
(*   Spec          the engine session, the evaluation channel, the cache   *)
(*                 and the scheduler (analyzeAll and the single-position   *)
(*                 requests) as one state machine.                         *)
(*   SpecClassify  annotations and playerStats applied to one move, the    *)
(*                 two adjacent evaluations and the board facts drawn      *)
(*                 from bounded sets.                                      *)
(*                                                                         *)
(* The rules library (chess.js) and the engine are collaborators.  A       *)
(* position is a number; what the rules library answers about a position  *)
(* and a move is a record of board facts (MoveDesc).  The                  *)
(* engine is a FIFO of searches that emits info lines and one bestmove     *)
(* line per search, with any scores and moves of its alphabet.             *)
(***************************************************************************)
EXTENDS Integers, Sequences, FiniteSets, TLC

(***************************************************************************)
(* Bounds of the model.                                                    *)
(***************************************************************************)
\* length of the candidate list walked by tryNextCandidate
NumCandidates == 2
\* analyzeAll runs started in one behaviour
MaxRuns == 1
\* single-position requests (requestAnalyzeCurrent, flush) in one behaviour
MaxCur == 1
\* info lines the engine emits per search before its bestmove line
MaxInfo == 1

(***************************************************************************)
(* JavaScript values.  null is a value of its own in every domain.         *)
(***************************************************************************)
\* null where a number is expected (offeredSacrificeLossMagnitude, worstImmediateCaptureLoss)
NullNum == 999999
\* movetime == null
NullMv == -1
\* null where a string is expected
NullStr == ""

Min2(a, b) == IF a <= b THEN a ELSE b
Max2(a, b) == IF a >= b THEN a ELSE b
Abs(x) == IF x < 0 THEN -x ELSE x
Sign(x) == IF x > 0 THEN 1 ELSE IF x < 0 THEN -1 ELSE 0
SetMin(S) == CHOOSE x \in S : \A y \in S : x <= y
SetMax(S) == CHOOSE x \in S : \A y \in S : x >= y

\* x <= c in JavaScript, null coerced to 0
JsLeq(x, c) == IF x = NullNum THEN 0 <= c ELSE x <= c

(***************************************************************************)
(* Evaluations: {cp | mate, bestmoveUci, multipv[]} or null.               *)
(***************************************************************************)
NullEval == [t |-> "null", v |-> 0, bestmoveUci |-> NullStr, multipv |-> <<>>]
NullScore == [t |-> "null", v |-> 0]
IsEval(ev) == ev.t # "null"
Cp(n) == [t |-> "cp", v |-> n]
Mate(n) == [t |-> "mate", v |-> n]

(***************************************************************************)
(* SAN strings: the move text and its trailing check/mate suffix.          *)
(***************************************************************************)
NullSan == [mv |-> NullStr, sfx |-> ""]
San(mv, sfx) == [mv |-> mv, sfx |-> sfx]

normalizeSan(san) == IF san.mv = NullStr THEN san ELSE [san EXCEPT !.sfx = ""]

(***************************************************************************)
(* Board facts.  A MoveDesc is what chess.js reports for one legal move of *)
(* a position: its uci and san text, the moved piece, whether it captures, *)
(* and the opponent's capturing replies after it.  Each reply says whether *)
(* it lands on the moved piece's target square, the mover's material       *)
(* change it causes (afterOpp), the mover's material change after each     *)
(* immediate recapture on that square (recaps, relative to the material    *)
(* after the move), and whether the mover then has a checking reply.       *)
(***************************************************************************)
NoMove == [uci |-> NullStr, san |-> NullSan, piece |-> "null", capture |-> FALSE,
           replies |-> {}]
Reply(onTarget, afterOpp, recaps, check) ==
    [onTarget |-> onTarget, afterOpp |-> afterOpp, recaps |-> recaps, check |-> check]

(***************************************************************************)
(* Positions are numbered.  Positions 0 .. 3 are those of the games of     *)
(* Spec: every position list starts with position 1; game 1 is one mating  *)
(* move (position 3 is checkmate); game 2 is one move that offers a knight *)
(* the opponent can take for nothing.  Position 0 is fens[idx] of an empty *)
(* list: undefined, which chess.js reads as the start position.            *)
(***************************************************************************)

MvB == [uci |-> "d1h5", san |-> San("Qh5", "#"), piece |-> "q", capture |-> FALSE,
        replies |-> {}]
MvC == [uci |-> "b1c3", san |-> San("Nc3", ""), piece |-> "n", capture |-> FALSE,
        replies |-> {Reply(TRUE, -3, {}, FALSE)}]
MvD == [uci |-> "g8f6", san |-> San("Nf6", ""), piece |-> "n", capture |-> FALSE,
        replies |-> {}]


(***************************************************************************)
(* Positions from ClsBase on are those of SpecClassify: position           *)
(* ClsBase + 2k is the position before the k-th move of the family         *)
(* ClsMove, position ClsBase + 2k + 1 the position after it.  The family   *)
(* ranges over the moved piece and what the opponent can capture after the *)
(* move: nothing, the moved piece for free (with or without a checking     *)
(* answer), the moved piece against a plain recapture or a recapture that  *)
(* promotes to a queen or a rook, a rook or a pawn elsewhere; or the move  *)
(* mates; or it is a capture the opponent cannot answer with one.          *)
(***************************************************************************)
ClsBase == 10
ClsPieces == <<"p", "n", "b", "r", "q", "k">>
ClsReplyKinds == 9
ClsMoveCount == 6 * ClsReplyKinds + 6

PieceValue(piece) ==
    CASE piece = "p" -> 1 [] piece \in {"n", "b"} -> 3 [] piece = "r" -> 5
      [] piece = "q" -> 9 [] OTHER -> 0

ClsReplies(piece, r) ==
    LET v == PieceValue(piece)
    IN CASE r = 1 -> {Reply(TRUE, -v, {}, FALSE)}
         [] r = 2 -> {Reply(TRUE, -v, {}, TRUE)}
         [] r = 3 -> {Reply(TRUE, -v, {-v}, FALSE)}
         [] r = 4 -> {Reply(TRUE, -v, {8 - v}, FALSE)}
         [] r = 5 -> {Reply(TRUE, -v, {4 - v}, FALSE)}
         [] r = 6 -> {Reply(FALSE, -5, {}, FALSE)}
         [] r = 7 -> {Reply(FALSE, -1, {}, FALSE)}
         [] OTHER -> {}

ClsMates(k) == k \div 6 = 8
ClsMove(k) ==
    LET piece == ClsPieces[(k % 6) + 1]
    IN [uci |-> "e2e4",
        san |-> San("Me4", IF ClsMates(k) THEN "#" ELSE ""),
        piece |-> piece,
        capture |-> k \div 6 >= ClsReplyKinds,
        replies |-> ClsReplies(piece, k \div 6)]
ClsAlt == [uci |-> "g1f3", san |-> San("Nf3", ""), piece |-> "n", capture |-> FALSE,
           replies |-> {}]

\* game.moves({verbose: true}) of new Chess(fen), as far as the model uses them
LegalMoves(p) ==
    CASE p \in {0, 1} -> {MvB, MvC}
      [] p = 2 -> {MvD}
      [] p >= ClsBase /\ (p - ClsBase) % 2 = 0 ->
            {ClsMove((p - ClsBase) \div 2), ClsAlt}
      [] p >= ClsBase /\ (p - ClsBase) % 2 = 1 ->
            IF ClsMates((p - ClsBase) \div 2) THEN {} ELSE {ClsAlt}
      [] OTHER -> {}

\* g.isCheckmate() / g.isStalemate() of new Chess(fen)
IsCheckmate(p) ==
    \/ p = 3
    \/ p >= ClsBase /\ (p - ClsBase) % 2 = 1 /\ ClsMates((p - ClsBase) \div 2)
IsStalemate(p) == FALSE

\* JavaScript arrays are indexed from 0
At(seq, i) == seq[i + 1]
HasIndex(seq, i) == i >= 0 /\ i < Len(seq)

\* game.move(san, {sloppy: true}) on new Chess(fen): the move, or null
MoveOf(p, san) ==
    IF \E m \in LegalMoves(p) : normalizeSan(m.san) = normalizeSan(san) /\ san.mv # NullStr
    THEN CHOOSE m \in LegalMoves(p) : normalizeSan(m.san) = normalizeSan(san)
    ELSE NoMove

uciToSan(p, uci) ==
    IF \E m \in LegalMoves(p) : m.uci = uci
    THEN (CHOOSE m \in LegalMoves(p) : m.uci = uci).san
    ELSE NullSan

getMovedPieceType(d) == d.piece

(***************************************************************************)
(* The decoder.  A game text is its tag header (none, followed by a blank  *)
(* line, or not), whether noise precedes the movetext, whether the         *)
(* movetext carries move numbers, and the tokens of the movetext: move     *)
(* texts, a token that is no move ("zz"), a comment ("{c}").               *)
(***************************************************************************)
Pgn(tags, lead, numbered, body) ==
    [tags |-> tags, lead |-> lead, numbered |-> numbered, body |-> body]
\* movetexts: empty, noise, a comment, a move that cannot be played first, games
\* of one and two moves, and games with noise, comments or an unplayable move
\* before, between and after their moves
PgnBodies ==
    {<<>>, <<"zz">>, <<"{c}">>, <<"Nf6">>, <<"zz", "Nf6">>,
     <<"Qh5">>, <<"Nc3">>, <<"Nc3", "Nf6">>, <<"zz", "Nc3">>, <<"{c}", "Nc3">>,
     <<"Nf6", "Nc3">>, <<"Nc3", "zz", "Nf6">>, <<"Nc3", "{c}", "Nf6">>,
     <<"Nc3", "Nc3", "Nf6">>, <<"Nc3", "Nf6", "zz">>}
PgnTexts ==
    {Pgn(tags, lead, numbered, body) :
        tags \in {"none", "blank", "noblank"}, lead \in BOOLEAN, numbered \in BOOLEAN,
        body \in PgnBodies}
\* the game texts of Spec: one mating move; one move that offers a knight
Games == {Pgn("none", FALSE, TRUE, <<"Qh5">>), Pgn("none", FALSE, TRUE, <<"Nc3">>)}

\* new Chess().fen(), and walk.fen() after walk.move of a legal move
StartPosition == 1
PositionAfter(p, uci) ==
    CASE p \in {0, 1} /\ uci = "d1h5" -> 3
      [] p \in {0, 1} /\ uci = "b1c3" -> 2
      [] p = 2 /\ uci = "g8f6" -> 4
      [] OTHER -> p

Decoded(fenList, sanList) == [ok |-> TRUE, fens |-> fenList, sans |-> sanList, message |-> ""]
DecodeError(message) == [ok |-> FALSE, fens |-> <<>>, sans |-> <<>>, message |-> message]

\* loadPgn of chess.js (sloppy): the header must be well formed, nothing but
\* movetext may follow it, and every move must be legal where it is played;
\* comments are accepted.  The result: ok, and game.history({verbose: true})
RECURSIVE LoadMoves(_, _, _)
LoadMoves(p, toks, hist) ==
    IF toks = <<>> THEN [ok |-> TRUE, moves |-> hist]
    ELSE IF Head(toks) = "{c}" THEN LoadMoves(p, Tail(toks), hist)
    ELSE LET m == MoveOf(p, San(Head(toks), ""))
         IN IF m = NoMove THEN [ok |-> FALSE, moves |-> <<>>]
            ELSE LoadMoves(PositionAfter(p, m.uci), Tail(toks), Append(hist, m))
loadPgn(text) ==
    IF text.tags = "noblank" \/ text.lead THEN [ok |-> FALSE, moves |-> <<>>]
    ELSE LoadMoves(StartPosition, text.body, <<>>)

\* the loop over game.history: walk.move(mv), fens.push(walk.fen()), sans.push(mv.san)
RECURSIVE WalkMoves(_, _, _, _)
WalkMoves(p, moves, fenList, sanList) ==
    IF moves = <<>> THEN Decoded(fenList, sanList)
    ELSE LET q == PositionAfter(p, Head(moves).uci)
         IN WalkMoves(q, Tail(moves), Append(fenList, q), Append(sanList, Head(moves).san))

\* the last fallback: replay token by token, skipping what walk.move rejects
RECURSIVE ReplayTokensPushesAlways(_, _, _, _)
ReplayTokensPushesAlways(p, toks, fenList, sanList) ==
    IF toks = <<>> THEN [fens |-> fenList, sans |-> sanList]
    ELSE LET m == MoveOf(p, San(Head(toks), ""))
         IN IF m = NoMove
            THEN ReplayTokensPushesAlways(p, Tail(toks), Append(fenList, p), sanList)
            ELSE ReplayTokensPushesAlways(PositionAfter(p, m.uci), Tail(toks),
                                          Append(fenList, PositionAfter(p, m.uci)),
                                          Append(sanList, m.san))
RECURSIVE ReplayTokens(_, _, _, _)
ReplayTokens(p, toks, fenList, sanList) ==
    IF toks = <<>> THEN [fens |-> fenList, sans |-> sanList]
    ELSE LET m == MoveOf(p, San(Head(toks), ""))
         IN IF m = NoMove
            THEN ReplayTokens(p, Tail(toks), fenList, sanList)
            ELSE ReplayTokens(PositionAfter(p, m.uci), Tail(toks),
                              Append(fenList, PositionAfter(p, m.uci)),
                              Append(sanList, m.san))

\* stripTags, stripComments, stripResults, stripMoveNums, split(' '): the tokens
\* of the movetext without its comments, after the noise that precedes it
StrippedTokens(text) ==
    (IF text.lead THEN <<"zz">> ELSE <<>>) \o SelectSeq(text.body, LAMBDA tok : tok # "{c}")

DecodeErrorText == "PGN tidak valid atau gagal di-parse"

parsePgnToFens(text) ==
    LET first == loadPgn(text)
        \* a blank line inserted after the last tag
        second == loadPgn([text EXCEPT !.tags = IF @ = "noblank" THEN "blank" ELSE @])
        \* the tags removed, the movetext taken from its first move number
        third == IF text.numbered
                 THEN loadPgn([text EXCEPT !.tags = "none", !.lead = FALSE])
                 ELSE [ok |-> FALSE, moves |-> <<>>]
        loaded == IF first.ok THEN first ELSE IF second.ok THEN second ELSE third
        toks == StrippedTokens(text)
        replay == ReplayTokens(StartPosition, toks, <<StartPosition>>, <<>>)
    IN IF loaded.ok /\ loaded.moves # <<>>
       THEN WalkMoves(StartPosition, loaded.moves, <<StartPosition>>, <<>>)
       ELSE IF toks = <<>> \/ replay.sans = <<>> THEN DecodeError(DecodeErrorText)
       ELSE Decoded(replay.fens, replay.sans)

\* the position list and the move list parsePgnToFens returns for a game text
GameFens(g) == parsePgnToFens(g).fens
GameSans(g) == parsePgnToFens(g).sans

\* offeredSacrificeLossMagnitude: over the opponent's captures on the target square,
\* the most negative material change of the mover, after the mover's best recapture
\* on that square when there is one; null when no such capture exists
ReplyDelta(r) == IF r.recaps # {} THEN SetMax(r.recaps) ELSE r.afterOpp
offeredSacrificeLossMagnitude(d) ==
    LET onT == {r \in d.replies : r.onTarget}
    IN IF d.piece = "null" \/ onT = {} THEN NullNum
       ELSE SetMin({ReplyDelta(r) : r \in onT})

worstImmediateCaptureLoss(d) ==
    IF d.piece = "null" \/ d.replies = {} THEN NullNum
    ELSE SetMin({r.afterOpp : r \in d.replies})

hasOpponentCaptureOnTarget(d) == \E r \in d.replies : r.onTarget

moverHasImmediateCheckAfterTargetCapture(d) ==
    \E r \in d.replies : r.onTarget /\ r.check

\* the piece-scaled thresholds: queen 5, rook 3, bishop/knight 2 (spelled out at
\* each use in the source)
QualifiesOnAnyLoss(piece, loss) == loss # NullNum /\ loss < 0
QualifiesQueenOnly(piece, loss) == piece = "q" /\ JsLeq(loss, -5)
QualifiesAsSacrifice(piece, loss) ==
    \/ piece = "q" /\ JsLeq(loss, -5)
    \/ piece = "r" /\ JsLeq(loss, -3)
    \/ piece \in {"n", "b"} /\ JsLeq(loss, -2)

isStrictPieceSacrificeOffer(d) ==
    IF d.piece \in {"null", "k", "p"} THEN FALSE
    ELSE LET loss == offeredSacrificeLossMagnitude(d)
         IN IF loss = NullNum THEN FALSE ELSE QualifiesAsSacrifice(d.piece, loss)

(***************************************************************************)
(* State.                                                                  *)
(***************************************************************************)
VARIABLES
    \* engine session (the mount effect's closure, workerRef, engineReady)
    candidateIndex, timeoutToken, loadingTimeout, workerRef, alive, handshake,
    engineReady,
    \* component state
    fens, sans, idx, evals, thinking, analyzeProgress, pendingAnalyze, error,
    \* evalCacheRef
    cache,
    \* message listeners added by analyzeFenOnce, the engine's pending searches,
    \* and, per cache key, the number of go commands sent (n) and what that number
    \* was when a search with the key first gave its requester an evaluation (first)
    handlers, engineQ, goCount,
    \* analyzeAll runs, single-position requests, resolved promises whose
    \* continuation has not run yet
    runs, curs, micro,
    \* the move under classification (SpecClassify)
    cls

vars == <<candidateIndex, timeoutToken, loadingTimeout, workerRef, alive, handshake,
          engineReady, fens, sans, idx, evals, thinking, analyzeProgress,
          pendingAnalyze, error, cache, handlers, engineQ, goCount, runs, curs, micro,
          cls>>

\* candidates.length, and one worker per candidate: handshake has an entry for each
candidatesLength == Len(handshake)
Workers == DOMAIN handshake
NoWorker == 0
NoPending == [type |-> "none", depth |-> 0]
EmptyMap == <<>>
Put(m, k, v) == (k :> v) @@ m
Has(m, k) == k \in DOMAIN m
\* m[k], undefined read as null
Get(m, k) == IF k \in DOMAIN m THEN m[k] ELSE NullEval

(***************************************************************************)
(* Engine session: the mount effect, setupWorker, tryNextCandidate.        *)
(***************************************************************************)
\* tryNextCandidate(currentWorker): terminate, advance, then create and set up the
\* next candidate (workerRef, a new watchdog under a new token, the uci command), or
\* give up with engineReady false
TryNextCandidateKeepsWorker(w) ==
    /\ candidateIndex' = candidateIndex + 1
    /\ IF candidateIndex + 1 < candidatesLength
       THEN /\ workerRef' = candidateIndex + 2
            /\ alive' = alive \cup {candidateIndex + 2}
            /\ timeoutToken' = timeoutToken + 1
            /\ loadingTimeout' = timeoutToken + 1
            /\ handshake' = [handshake EXCEPT ![candidateIndex + 2] = "uci"]
            /\ UNCHANGED engineReady
       ELSE /\ alive' = alive
            /\ loadingTimeout' = 0
            /\ engineReady' = FALSE
            /\ UNCHANGED <<workerRef, timeoutToken, handshake>>

TryNextCandidate(w) ==
    /\ candidateIndex' = candidateIndex + 1
    /\ IF candidateIndex + 1 < candidatesLength
       THEN /\ workerRef' = candidateIndex + 2
            /\ alive' = (alive \ {w}) \cup {candidateIndex + 2}
            /\ timeoutToken' = timeoutToken + 1
            /\ loadingTimeout' = timeoutToken + 1
            /\ handshake' = [handshake EXCEPT ![candidateIndex + 2] = "uci"]
            /\ UNCHANGED engineReady
       ELSE /\ alive' = alive \ {w}
            /\ loadingTimeout' = 0
            /\ engineReady' = FALSE
            /\ UNCHANGED <<workerRef, timeoutToken, handshake>>

\* the searches of a terminated worker are gone with it
DropQueue(w) == engineQ' = [engineQ EXCEPT ![w] = <<>>]

\* w.onerror: a worker error event of a live worker
WorkerError(w) ==
    /\ micro = <<>>
    /\ w \in alive
    /\ TryNextCandidate(w)
    /\ DropQueue(w)
    /\ UNCHANGED <<fens, sans, idx, evals, thinking, analyzeProgress,
                   pendingAnalyze, error, cache, handlers, goCount, runs, curs, micro,
                   cls>>

\* w.onerror of a worker that tryNextCandidate has terminated: an error event queued
\* before the termination is still delivered, and the handler does not compare w
\* with workerRef.current
StaleWorkerError(w) ==
    /\ micro = <<>>
    /\ w \notin alive /\ handshake[w] # "none"
    /\ candidateIndex < candidatesLength
    /\ TryNextCandidate(w)
    /\ UNCHANGED <<fens, sans, idx, evals, thinking, analyzeProgress,
                   pendingAnalyze, error, cache, handlers, engineQ, goCount, runs, curs,
                   micro, cls>>

\* w.onmessage with an object {type: 'error'}
WorkerErrorMessage(w) ==
    /\ micro = <<>>
    /\ w \in alive
    /\ TryNextCandidate(w)
    /\ DropQueue(w)
    /\ UNCHANGED <<fens, sans, idx, evals, thinking, analyzeProgress,
                   pendingAnalyze, error, cache, handlers, goCount, runs, curs, micro,
                   cls>>

WorkerReadyLineKeepsWatchdog(w) ==
    /\ micro = <<>>
    /\ w \in alive
    /\ handshake[w] = "uci"
    /\ handshake' = [handshake EXCEPT ![w] = "uciok"]
    /\ engineReady' = TRUE
    /\ UNCHANGED <<candidateIndex, timeoutToken, loadingTimeout, workerRef, alive, fens,
                   sans, idx, evals, thinking, analyzeProgress, pendingAnalyze, error,
                   cache, handlers, engineQ, goCount, runs, curs, micro, cls>>

\* w.onmessage with a line that includes uciok: the engine's answer to uci
WorkerReadyLine(w) ==
    /\ micro = <<>>
    /\ w \in alive
    /\ handshake[w] = "uci"
    /\ handshake' = [handshake EXCEPT ![w] = "uciok"]
    /\ loadingTimeout' = 0
    /\ engineReady' = TRUE
    /\ UNCHANGED <<candidateIndex, timeoutToken, workerRef, alive, fens, sans,
                   idx, evals, thinking, analyzeProgress, pendingAnalyze, error, cache,
                   handlers, engineQ, goCount, runs, curs, micro, cls>>

\* what a worker posts: a string line, or an object with a type and, for a log, a
\* message; a text is the set of words it includes
StringMsg(words) == [kind |-> "string", type |-> NullStr, words |-> words]
ObjectMsg(type, words) == [kind |-> "object", type |-> type, words |-> words]
ErrorLine == StringMsg({"error"})
ErrorObject == ObjectMsg("error", {"error"})
Messages ==
    {StringMsg({"uciok"}), StringMsg({"readyok"}), ErrorLine,
     StringMsg({"error", "uciok"}), StringMsg({"info"}),
     ObjectMsg("ready", {}), ErrorObject,
     ObjectMsg("log", {"uciok"}), ObjectMsg("log", {"error"})}
includesReady(words) == "uciok" \in words \/ "readyok" \in words

MessageEffectFatalOnErrorWord(m) ==
    IF "error" \in m.words THEN "fallback"
    ELSE IF includesReady(m.words) \/ m.type = "ready" THEN "ready"
    ELSE "none"

\* the branch w.onmessage takes on a message
MessageEffect(m) ==
    IF m.kind = "string"
    THEN IF includesReady(m.words) THEN "ready" ELSE "none"
    ELSE IF m.type = "ready" THEN "ready"
    ELSE IF m.type = "error" THEN "fallback"
    ELSE IF m.type = "log" /\ includesReady(m.words) THEN "ready"
    ELSE "none"

\* w.onmessage of setupWorker on message m of worker w
OnMessage(w, m) ==
    CASE MessageEffect(m) = "ready" -> WorkerReadyLine(w)
      [] MessageEffect(m) = "fallback" -> WorkerErrorMessage(w)
      [] OTHER -> micro = <<>> /\ w \in alive /\ UNCHANGED vars

\* the watchdog callback of setupWorker, 30 s after it was armed
WatchdogFires ==
    /\ micro = <<>>
    /\ loadingTimeout # 0
    /\ loadingTimeout' = 0
    /\ engineReady' = IF loadingTimeout # timeoutToken THEN engineReady ELSE FALSE
    /\ UNCHANGED <<candidateIndex, timeoutToken, workerRef, alive, handshake, fens, sans,
                   idx, evals, thinking, analyzeProgress, pendingAnalyze, error, cache,
                   handlers, engineQ, goCount, runs, curs, micro, cls>>

(***************************************************************************)
(* Evaluation channel: analyzeFenOnce and its message handler.             *)
(***************************************************************************)
Params(mv, dp, mpv) == [mv |-> mv, dp |-> dp, mpv |-> mpv]
\* `${fen}|mv:${movetime ?? ''}|dp:${depth}|mpv:${multiPV}`
CacheKey(fen, p) == <<fen, IF p.mv = NullMv THEN "" ELSE ToString(p.mv), p.dp, p.mpv>>

RunOwner(r) == [kind |-> "run", id |-> r, idx |-> 0]
CurOwner(c, i) == [kind |-> "cur", id |-> c, idx |-> i]

getTerminalEvalIgnoresMate(fen) ==
    IF IsStalemate(fen) THEN Cp(0) ELSE NullScore
getTerminalEval(fen) ==
    IF IsCheckmate(fen) THEN Mate(0)
    ELSE IF IsStalemate(fen) THEN Cp(0)
    ELSE NullScore

\* an info line: its multipv rank (0 when the line has no multipv token), its score
\* and the first move of its pv (null when the line has none)
InfoLine(k, sc, pv) == [k |-> k, sc |-> sc, pv |-> pv]

\* handler(e) for a string line without bestmove: mpv[k] and currentEval
HandleInfo(h, line) ==
    LET stored == line.k # 0 /\ line.pv # NullStr /\ line.sc.t # "null"
        mpv1 == IF stored
                THEN Put(h.mpv, line.k, [t |-> line.sc.t, v |-> line.sc.v, uci |-> line.pv])
                ELSE h.mpv
        cur1 == IF line.sc.t # "null" THEN line.sc ELSE h.cur
    IN [h EXCEPT !.mpv = mpv1, !.cur = cur1]

RECURSIVE SortedMultipv(_)
SortedMultipv(m) ==
    IF DOMAIN m = {} THEN <<>>
    ELSE LET k == SetMin(DOMAIN m)
         IN <<[rank |-> k, uci |-> m[k].uci, t |-> m[k].t, v |-> m[k].v]>>
            \o SortedMultipv([x \in DOMAIN m \ {k} |-> m[x]])

BuildResultPrefersCurrent(h, bestmoveUci) ==
    LET multipv == SortedMultipv(h.mpv)
        result == IF h.cur.t # "null" THEN h.cur
                  ELSE IF 1 \in DOMAIN h.mpv
                  THEN [t |-> h.mpv[1].t, v |-> h.mpv[1].v]
                  ELSE NullScore
    IN IF result.t # "null"
       THEN [t |-> result.t, v |-> result.v, bestmoveUci |-> bestmoveUci,
             multipv |-> multipv]
       ELSE NullEval
\* the value the promise resolves with when the bestmove line arrives
BuildResult(h, bestmoveUci) ==
    LET multipv == SortedMultipv(h.mpv)
        result == IF 1 \in DOMAIN h.mpv
                  THEN [t |-> h.mpv[1].t, v |-> h.mpv[1].v]
                  ELSE h.cur
    IN IF result.t # "null"
       THEN [t |-> result.t, v |-> result.v, bestmoveUci |-> bestmoveUci,
             multipv |-> multipv]
       ELSE NullEval

\* a resolved promise of analyzeFenOnce(fen, ...) whose continuation is queued
Resolved(owner, fen, val) == [owner |-> owner, fen |-> fen, val |-> val]

\* analyzeFenOnce(fen, opts) called by `owner` with the cache as the caller left it
\* (cacheIn) and the continuations queued behind the caller's (rest).  Either the
\* promise resolves at once (terminal position, cache hit, no worker), which queues
\* the caller's continuation behind them, or a listener is added and
\* setoption/position/go are posted to workerRef.current.
\* (seen is the history of the lines a listener of the richer engine below received)
PostSearch(owner, fen, p, cacheIn, rest) ==
    /\ cache' = cacheIn
    /\ micro' = rest
    /\ handlers' = Append(handlers,
           [owner |-> owner, w |-> workerRef, fen |-> fen, p |-> p,
            mpv |-> EmptyMap, cur |-> NullScore, seen |-> <<>>])
    /\ IF workerRef \in alive
       THEN /\ engineQ' = [engineQ EXCEPT ![workerRef] =
                   Append(@, [owner |-> owner, fen |-> fen, p |-> p, lines |-> 0,
                               last |-> NullStr])]
            /\ goCount' = Put(goCount, CacheKey(fen, p),
                              IF Has(goCount, CacheKey(fen, p))
                              THEN [goCount[CacheKey(fen, p)] EXCEPT !.n = @ + 1]
                              ELSE [n |-> 1, first |-> 0])
       ELSE UNCHANGED <<engineQ, goCount>>
AnalyzeFenOnce(owner, fen, p, cacheIn, rest) ==
    LET key == CacheKey(fen, p)
        terminal == getTerminalEval(fen)
    IN IF workerRef = NoWorker
       THEN /\ cache' = cacheIn
            /\ micro' = Append(rest, Resolved(owner, fen, NullEval))
            /\ UNCHANGED <<handlers, engineQ, goCount>>
       ELSE IF terminal.t # "null"
       THEN LET res == [t |-> terminal.t, v |-> terminal.v, bestmoveUci |-> NullStr,
                        multipv |-> <<>>]
            IN /\ cache' = Put(cacheIn, key, res)
               /\ micro' = Append(rest, Resolved(owner, fen, res))
               /\ UNCHANGED <<handlers, engineQ, goCount>>
       ELSE IF Has(cacheIn, key)
       THEN /\ cache' = cacheIn
            /\ micro' = Append(rest, Resolved(owner, fen, cacheIn[key]))
            /\ UNCHANGED <<handlers, engineQ, goCount>>
       ELSE PostSearch(owner, fen, p, cacheIn, rest)

(***************************************************************************)
(* The engine behind a live worker that has answered uci.                  *)
(***************************************************************************)
\* the info lines of a search: one line per legal move, whose score varies with the
\* depth searched (LineCp at depth 0, one centipawn more per ply)
LineCp == 30
EngineLines(fen, p) == {InfoLine(1, Cp(LineCp + p.dp), m.uci) : m \in LegalMoves(fen)}

OnWorker(w) == {n \in 1 .. Len(handlers) : handlers[n].w = w}

\* an info line of the search at the head of the queue, seen by every listener
EngineInfo(w) ==
    /\ micro = <<>>
    /\ w \in alive /\ handshake[w] = "uciok"
    /\ engineQ[w] # <<>>
    /\ Head(engineQ[w]).lines < MaxInfo
    /\ \E line \in EngineLines(Head(engineQ[w]).fen, Head(engineQ[w]).p) :
          /\ engineQ' = [engineQ EXCEPT ![w] =
                 <<[Head(@) EXCEPT !.lines = @ + 1, !.last = line.pv]>> \o Tail(@)]
          /\ handlers' = [n \in 1 .. Len(handlers) |->
                 IF handlers[n].w = w THEN HandleInfo(handlers[n], line)
                 ELSE handlers[n]]
    /\ UNCHANGED <<candidateIndex, timeoutToken, loadingTimeout, workerRef, alive,
                   handshake, engineReady, fens, sans, idx, evals, thinking,
                   analyzeProgress, pendingAnalyze, error, cache, goCount, runs, curs,
                   micro, cls>>

\* the bestmove line of the search at the head of the queue: every listener of the
\* worker removes itself and resolves its promise
EngineBestmove(w) ==
    /\ micro = <<>>
    /\ w \in alive /\ handshake[w] = "uciok"
    /\ engineQ[w] # <<>>
    /\ \E bm \in {m.uci : m \in LegalMoves(Head(engineQ[w]).fen)} :
          /\ Head(engineQ[w]).last \in {NullStr, bm}
          /\ micro' = [n \in 1 .. Cardinality(OnWorker(w)) |->
                 LET h == handlers[CHOOSE x \in OnWorker(w) :
                               Cardinality({y \in OnWorker(w) : y < x}) = n - 1]
                 IN Resolved(h.owner, h.fen, BuildResult(h, bm))]
          /\ goCount' = [k \in DOMAIN goCount |->
                 IF /\ goCount[k].first = 0
                    /\ k = CacheKey(Head(engineQ[w]).fen, Head(engineQ[w]).p)
                    /\ \E n \in OnWorker(w) :
                          /\ CacheKey(handlers[n].fen, handlers[n].p) = k
                          /\ IsEval(BuildResult(handlers[n], bm))
                 THEN [goCount[k] EXCEPT !.first = goCount[k].n]
                 ELSE goCount[k]]
    /\ handlers' = SelectSeq(handlers, LAMBDA h : h.w # w)
    /\ engineQ' = [engineQ EXCEPT ![w] = Tail(@)]
    /\ UNCHANGED <<candidateIndex, timeoutToken, loadingTimeout, workerRef, alive,
                   handshake, engineReady, fens, sans, idx, evals, thinking,
                   analyzeProgress, pendingAnalyze, error, cache, runs, curs, cls>>

(***************************************************************************)
(* Analysis scheduler: analyzeAll.  A run is suspended at one await; pc    *)
(* names the pass of that await and i its position index.                  *)
(***************************************************************************)
\* movetime, multiPV, stableDepth, stableMultiPV as every caller passes them
FastMovetime == 80
FastMultiPV == 3
StableDepth == 14
StableMultiPV == 5
FastDepthCap == 12
DeepMinDepth == 18
DeepExtraDepth == 4

FirstOpts(run) ==
    IF run.fast THEN Params(FastMovetime, Min2(run.depth, FastDepthCap), FastMultiPV)
    ELSE Params(NullMv, run.depth, 5)
StableOpts == Params(NullMv, StableDepth, StableMultiPV)
DeepOpts(run) ==
    Params(NullMv,
           Max2((IF run.stable THEN StableDepth ELSE run.depth) + DeepExtraDepth,
                DeepMinDepth),
           Max2(StableMultiPV, 5))

\* ev.bestmoveUci || ev.multipv.find(x => x.rank === 1)?.uci
TopUci(ev) ==
    IF ev.bestmoveUci # NullStr THEN ev.bestmoveUci
    ELSE IF \E n \in 1 .. Len(ev.multipv) : ev.multipv[n].rank = 1
    THEN ev.multipv[CHOOSE n \in 1 .. Len(ev.multipv) : ev.multipv[n].rank = 1].uci
    ELSE NullStr

\* the top move of ev at fen is the played move (normalized SAN match)
IsTopMove(fen, ev, playedSan) ==
    LET bestSan == IF TopUci(ev) # NullStr THEN uciToSan(fen, TopUci(ev)) ELSE NullSan
    IN bestSan.mv # NullStr /\ normalizeSan(bestSan) = normalizeSan(playedSan)

\* the verification loop reaches its await at j: a strict sacrifice candidate whose
\* move is not the top move of finalEvals[j]
NeedsDeep(run, final, j) ==
    /\ Has(final, j) /\ IsEval(final[j])
    /\ HasIndex(run.sansC, j)
    /\ isStrictPieceSacrificeOffer(MoveOf(At(run.fenList, j), At(run.sansC, j)))
    /\ ~IsTopMove(At(run.fenList, j), final[j], At(run.sansC, j))

DeepCandidates(run, final, from) ==
    {j \in from .. Len(run.fenList) - 2 : NeedsDeep(run, final, j)}

\* the deeper verdict replaces finalEvals[i] when its top move is the played move
PromoteDeepAlways(run, evDeep) == IsEval(evDeep)
PromoteDeep(run, evDeep) ==
    /\ IsEval(evDeep)
    /\ IsTopMove(At(run.fenList, run.i), evDeep, At(run.sansC, run.i))

\* finalEvals[i] after the stable search of position i returned ev2
StableChoice(next, i, ev2) == IF IsEval(ev2) THEN ev2 ELSE Get(next, i)

VerifyKeepsThinking(r, run, final, from, cacheIn, rest) ==
    LET cands == DeepCandidates(run, final, from)
    IN IF cands # {}
       THEN /\ runs' = [runs EXCEPT ![r] =
                   [run EXCEPT !.pc = "deep", !.i = SetMin(cands), !.final = final]]
            /\ AnalyzeFenOnce(RunOwner(r), At(run.fenList, SetMin(cands)),
                              DeepOpts(run), cacheIn, rest)
            /\ UNCHANGED <<evals, thinking>>
       ELSE /\ runs' = [runs EXCEPT ![r] = [run EXCEPT !.pc = "done", !.final = final]]
            /\ evals' = final
            /\ cache' = cacheIn
            /\ micro' = rest
            /\ UNCHANGED <<thinking, handlers, engineQ, goCount>>

VerifyPublishesEarly(r, run, final, from, cacheIn, rest) ==
    LET cands == DeepCandidates(run, final, from)
    IN IF cands # {}
       THEN /\ runs' = [runs EXCEPT ![r] =
                   [run EXCEPT !.pc = "deep", !.i = SetMin(cands), !.final = final]]
            /\ AnalyzeFenOnce(RunOwner(r), At(run.fenList, SetMin(cands)),
                              DeepOpts(run), cacheIn, rest)
            /\ evals' = final
            /\ UNCHANGED thinking
       ELSE /\ runs' = [runs EXCEPT ![r] = [run EXCEPT !.pc = "done", !.final = final]]
            /\ evals' = final
            /\ thinking' = FALSE
            /\ cache' = cacheIn
            /\ micro' = rest
            /\ UNCHANGED <<handlers, engineQ, goCount>>

\* what the run does from finalEvals = final, verification loop at index from:
\* the next deep search, or setEvals(finalEvals) and setThinking(false)
Verify(r, run, final, from, cacheIn, rest) ==
    LET cands == DeepCandidates(run, final, from)
    IN IF cands # {}
       THEN /\ runs' = [runs EXCEPT ![r] =
                   [run EXCEPT !.pc = "deep", !.i = SetMin(cands), !.final = final]]
            /\ AnalyzeFenOnce(RunOwner(r), At(run.fenList, SetMin(cands)),
                              DeepOpts(run), cacheIn, rest)
            /\ UNCHANGED <<evals, thinking>>
       ELSE /\ runs' = [runs EXCEPT ![r] = [run EXCEPT !.pc = "done", !.final = final]]
            /\ evals' = final
            /\ thinking' = FALSE
            /\ cache' = cacheIn
            /\ micro' = rest
            /\ UNCHANGED <<handlers, engineQ, goCount>>

\* the continuation of a run whose awaited analyzeFenOnce resolved with ev
RunResume(r) ==
    /\ micro # <<>>
    /\ Head(micro).owner = RunOwner(r)
    /\ LET run == runs[r]
           ev == Head(micro).val
           rest == Tail(micro)
           n == Len(run.fenList)
           fen == At(run.fenList, run.i)
       IN CASE run.pc = "fast" ->
                 LET next1 == IF IsEval(ev) THEN Put(run.next, run.i, ev) ELSE run.next
                     cache1 == IF IsEval(ev)
                               THEN Put(cache, CacheKey(fen, FirstOpts(run)), ev)
                               ELSE cache
                     run1 == [run EXCEPT !.next = next1]
                 IN /\ analyzeProgress' = <<run.i + 1, n>>
                    /\ IF run.i + 1 < n
                       THEN /\ runs' = [runs EXCEPT ![r] = [run1 EXCEPT !.i = run.i + 1]]
                            /\ AnalyzeFenOnce(RunOwner(r), At(run.fenList, run.i + 1),
                                              FirstOpts(run), cache1, rest)
                            /\ UNCHANGED <<evals, thinking>>
                       ELSE IF run.stable
                       THEN /\ runs' = [runs EXCEPT ![r] =
                                   [run1 EXCEPT !.pc = "stable", !.i = 0,
                                                !.final = EmptyMap,
                                                !.resets = @ + 1]]
                            /\ AnalyzeFenOnce(RunOwner(r), At(run.fenList, 0),
                                              StableOpts, cache1, rest)
                            /\ UNCHANGED <<evals, thinking>>
                       ELSE Verify(r, run1, next1, 0, cache1, rest)
            [] run.pc = "stable" ->
                 LET final1 == Put(run.final, run.i, StableChoice(run.next, run.i, ev))
                     run1 == [run EXCEPT !.final = final1,
                                         !.stab = Put(run.stab, run.i, ev)]
                 IN /\ analyzeProgress' = <<run.i + 1, n>>
                    /\ IF run.i + 1 < n
                       THEN /\ runs' = [runs EXCEPT ![r] = [run1 EXCEPT !.i = run.i + 1]]
                            /\ AnalyzeFenOnce(RunOwner(r), At(run.fenList, run.i + 1),
                                              StableOpts, cache, rest)
                            /\ UNCHANGED <<evals, thinking>>
                       ELSE Verify(r, run1, final1, 0, cache, rest)
            [] run.pc = "deep" ->
                 LET final1 == IF PromoteDeep(run, ev) THEN Put(run.final, run.i, ev)
                               ELSE run.final
                     run1 == [run EXCEPT !.deep = Put(run.deep, run.i, ev)]
                 IN /\ Verify(r, run1, final1, run.i + 1, cache, rest)
                    /\ UNCHANGED analyzeProgress
    /\ UNCHANGED <<candidateIndex, timeoutToken, loadingTimeout, workerRef, alive,
                   handshake, engineReady, fens, sans, idx, pendingAnalyze,
                   error, curs, cls>>

\* analyzeAll(depth, list, {fastFirstPass, stableFinalPass}) up to its first await.
\* resets counts the batches of reset commands (ucinewgame, Clear Hash, options) the
\* run has posted: one before its first loop, one before its stable pass.
\* sans is the move list of the render whose analyzeAll closure is called.
NewRun(depth, fenList, fast, stable) ==
    [pc |-> "fast", i |-> 0, fenList |-> fenList, sansC |-> sans, fast |-> fast,
     stable |-> stable, depth |-> depth, next |-> EmptyMap, final |-> EmptyMap,
     stab |-> EmptyMap, deep |-> EmptyMap, resets |-> 1]

AnalyzeAll(depth, fenList, fast, stable) ==
    IF ~engineReady \/ Len(fenList) = 0
    THEN UNCHANGED <<thinking, analyzeProgress, runs, cache, handlers, engineQ, goCount,
                     micro>>
    ELSE IF workerRef = NoWorker
    THEN /\ thinking' = FALSE
         /\ analyzeProgress' = <<0, 1>>
         /\ UNCHANGED <<runs, cache, handlers, engineQ, goCount, micro>>
    ELSE /\ thinking' = TRUE
         /\ analyzeProgress' = <<0, 1>>
         /\ runs' = Append(runs, NewRun(depth, fenList, fast, stable))
         /\ AnalyzeFenOnce(RunOwner(Len(runs) + 1), At(fenList, 0),
                           FirstOpts(NewRun(depth, fenList, fast, stable)), cache, <<>>)

\* setFens, setSans, setIdx(0), setEvals({}) of a decoded game
LoadGame(g) ==
    /\ fens' = GameFens(g)
    /\ sans' = GameSans(g)
    /\ idx' = 0
    /\ evals' = EmptyMap
    /\ error' = ""

DecodeFailedAfterClearing(g) ==
    /\ error' = parsePgnToFens(g).message
    /\ evals' = EmptyMap /\ idx' = 0
    /\ UNCHANGED <<fens, sans, thinking, analyzeProgress, runs, cache,
                   handlers, engineQ, goCount, micro>>

\* the catch of a handler: setError(e.message), nothing else
DecodeFailed(g) ==
    /\ error' = parsePgnToFens(g).message
    /\ UNCHANGED <<fens, sans, idx, evals, thinking, analyzeProgress, runs, cache,
                   handlers, engineQ, goCount, micro>>

QuickDepth == 12
DeepDepth == 14
AnalyzeDepth == 15
CurrentDepth == 18

\* the Quick button (disabled while thinking)
HandleQuickAnalyze(g) ==
    /\ micro = <<>> /\ ~thinking /\ Len(runs) < MaxRuns
    /\ IF parsePgnToFens(g).ok
       THEN /\ LoadGame(g)
            /\ AnalyzeAll(QuickDepth, GameFens(g), TRUE, FALSE)
       ELSE DecodeFailed(g)
    /\ UNCHANGED <<candidateIndex, timeoutToken, loadingTimeout, workerRef, alive,
                   handshake, engineReady, pendingAnalyze, curs, cls>>

\* the Deep button (disabled while thinking)
HandleDeepAnalyze(g) ==
    /\ micro = <<>> /\ ~thinking /\ Len(runs) < MaxRuns
    /\ IF parsePgnToFens(g).ok
       THEN /\ LoadGame(g)
            /\ AnalyzeAll(DeepDepth, GameFens(g), FALSE, TRUE)
       ELSE DecodeFailed(g)
    /\ UNCHANGED <<candidateIndex, timeoutToken, loadingTimeout, workerRef, alive,
                   handshake, engineReady, pendingAnalyze, curs, cls>>

\* handleAnalyze: decode, then analyze at once or leave a pending request
HandleAnalyze(g) ==
    /\ micro = <<>> /\ Len(runs) < MaxRuns
    /\ IF ~parsePgnToFens(g).ok
       THEN DecodeFailed(g) /\ UNCHANGED pendingAnalyze
       ELSE /\ LoadGame(g)
            /\ IF engineReady
               THEN /\ AnalyzeAll(AnalyzeDepth, GameFens(g), TRUE, TRUE)
                    /\ UNCHANGED pendingAnalyze
               ELSE /\ pendingAnalyze' = [type |-> "all", depth |-> AnalyzeDepth]
                    /\ UNCHANGED <<thinking, analyzeProgress, runs, cache, handlers,
                                   engineQ, goCount, micro>>
    /\ UNCHANGED <<candidateIndex, timeoutToken, loadingTimeout, workerRef, alive,
                   handshake, engineReady, curs, cls>>

RequestAnalyzeAll ==
    /\ micro = <<>>
    /\ IF engineReady
       THEN /\ AnalyzeAll(AnalyzeDepth, fens, TRUE, TRUE)
            /\ UNCHANGED pendingAnalyze
       ELSE /\ pendingAnalyze' = [type |-> "all", depth |-> AnalyzeDepth]
            /\ UNCHANGED <<thinking, analyzeProgress, runs, cache, handlers, engineQ,
                           goCount, micro>>
    /\ UNCHANGED <<candidateIndex, timeoutToken, loadingTimeout, workerRef, alive,
                   handshake, engineReady, fens, sans, idx, evals, error,
                   curs, cls>>

\* fens[idx], undefined when the list is empty
CurrentFen == IF HasIndex(fens, idx) THEN At(fens, idx) ELSE 0

RequestAnalyzeCurrent ==
    /\ micro = <<>> /\ curs < MaxCur
    /\ IF engineReady
       THEN /\ AnalyzeFenOnce(CurOwner(curs + 1, idx), CurrentFen,
                              Params(NullMv, CurrentDepth, 5), cache, <<>>)
            /\ curs' = curs + 1
            /\ UNCHANGED pendingAnalyze
       ELSE /\ pendingAnalyze' = [type |-> "current", depth |-> CurrentDepth]
            /\ UNCHANGED <<cache, handlers, engineQ, goCount, micro, curs>>
    /\ UNCHANGED <<candidateIndex, timeoutToken, loadingTimeout, workerRef, alive,
                   handshake, engineReady, fens, sans, idx, evals, thinking,
                   analyzeProgress, error, runs, cls>>

FlushPendingKeepsSlot ==
    /\ micro = <<>>
    /\ engineReady /\ pendingAnalyze.type # "none"
    /\ UNCHANGED pendingAnalyze
    /\ IF pendingAnalyze.type = "current"
       THEN /\ curs < MaxCur
            /\ AnalyzeFenOnce(CurOwner(curs + 1, idx), CurrentFen,
                              Params(NullMv, pendingAnalyze.depth, 5), cache, <<>>)
            /\ curs' = curs + 1
            /\ UNCHANGED <<thinking, analyzeProgress, runs>>
       ELSE /\ Len(runs) < MaxRuns
            /\ AnalyzeAll(pendingAnalyze.depth, fens, TRUE, TRUE)
            /\ UNCHANGED curs
    /\ UNCHANGED <<candidateIndex, timeoutToken, loadingTimeout, workerRef, alive,
                   handshake, engineReady, fens, sans, idx, evals, error, cls>>

\* the effect that flushes pendingAnalyze once the engine is ready
FlushPending ==
    /\ micro = <<>>
    /\ engineReady /\ pendingAnalyze.type # "none"
    /\ pendingAnalyze' = NoPending
    /\ IF pendingAnalyze.type = "current"
       THEN /\ curs < MaxCur
            /\ AnalyzeFenOnce(CurOwner(curs + 1, idx), CurrentFen,
                              Params(NullMv, pendingAnalyze.depth, 5), cache, <<>>)
            /\ curs' = curs + 1
            /\ UNCHANGED <<thinking, analyzeProgress, runs>>
       ELSE /\ Len(runs) < MaxRuns
            /\ AnalyzeAll(pendingAnalyze.depth, fens, TRUE, TRUE)
            /\ UNCHANGED curs
    /\ UNCHANGED <<candidateIndex, timeoutToken, loadingTimeout, workerRef, alive,
                   handshake, engineReady, fens, sans, idx, evals, error, cls>>

\* .then((ev) => { if (ev) setEvals(prev => ({...prev, [idx]: ev})) })
CurResume ==
    /\ micro # <<>>
    /\ Head(micro).owner.kind = "cur"
    /\ evals' = IF IsEval(Head(micro).val)
                THEN Put(evals, Head(micro).owner.idx, Head(micro).val)
                ELSE evals
    /\ micro' = Tail(micro)
    /\ UNCHANGED <<candidateIndex, timeoutToken, loadingTimeout, workerRef, alive,
                   handshake, engineReady, fens, sans, idx, thinking,
                   analyzeProgress, pendingAnalyze, error, cache, handlers, engineQ,
                   goCount, runs, curs, cls>>

navigateToPosition(newIdx) ==
    /\ micro = <<>>
    /\ Len(fens) > 0
    /\ newIdx # idx
    /\ newIdx >= 0 /\ newIdx < Len(fens)
    /\ idx' = newIdx
    /\ UNCHANGED <<candidateIndex, timeoutToken, loadingTimeout, workerRef, alive,
                   handshake, engineReady, fens, sans, evals, thinking,
                   analyzeProgress, pendingAnalyze, error, cache, handlers, engineQ,
                   goCount, runs, curs, micro, cls>>

(***************************************************************************)
(* Move classifier: mateToScore, classifyMoveByDelta, annotations.         *)
(***************************************************************************)
\* Math.min(99, ...): the largest mate distance that is told apart
MateClamp == 99
mateToScoreFartherIsLarger(mate) == Sign(mate) * (Min2(MateClamp, Abs(mate)) * 1000)
mateToScore(mate) == Sign(mate) * (100000 - Min2(MateClamp, Abs(mate)) * 1000)

\* bestCp: the pre-move evaluation in the mover's centipawns
BestCp(best) == IF best.t = "mate" THEN mateToScore(best.v) ELSE best.v
\* playedCp: the post-move evaluation flipped to the mover's side; mate 0 is the
\* mover's mate
PlayedCpFlipsMateZero(after) ==
    IF after.t = "mate" THEN -mateToScore(after.v) ELSE -after.v
PlayedCp(after) ==
    IF after.t = "mate"
    THEN IF after.v = 0 THEN 100000 ELSE -mateToScore(after.v)
    ELSE -after.v

\* deltaMateForMover, null unless both evaluations are mates for the mover
DeltaMateNever(best, after) == NullNum
DeltaMateForMover(best, after) ==
    IF /\ best.t = "mate" /\ Sign(best.v) > 0
       /\ after.t = "mate" /\ (after.v = 0 \/ Sign(after.v) < 0)
    THEN Abs(after.v) - Abs(best.v)
    ELSE NullNum

classifyMoveByDeltaStrict(bestCp, playedCp, bestIsMate, d) ==
    LET loss == bestCp - playedCp
    IN IF loss < 10 THEN "Best"
       ELSE IF loss < 20 THEN "Excellent"
       ELSE IF loss < 50 THEN "Good"
       ELSE IF loss < 150 THEN "Inaccuracy"
       ELSE IF loss < 300 THEN "Mistake"
       ELSE "Blunder"
classifyMoveByDelta(bestCp, playedCp, bestIsMate, d) ==
    LET loss == bestCp - playedCp
    IN IF d # NullNum
       THEN IF d <= 0 THEN "Best"
            ELSE IF d = 1 THEN "Excellent"
            ELSE IF d <= 3 THEN "Good"
            ELSE IF d <= 6 THEN "Inaccuracy"
            ELSE "Mistake"
       ELSE IF loss < -10 THEN "Best"
       ELSE IF \/ loss > 300
               \/ bestCp >= 300 /\ playedCp <= 0
               \/ bestCp <= -300 /\ playedCp >= 0
       THEN "Blunder"
       ELSE IF (bestIsMate \/ bestCp >= 300) /\ playedCp <= 50 /\ loss <= 200
       THEN "Miss"
       ELSE IF loss <= 10 THEN "Best"
       ELSE IF loss <= 20 THEN "Excellent"
       ELSE IF loss <= 50 THEN "Good"
       ELSE IF loss <= 150 THEN "Inaccuracy"
       ELSE IF loss <= 300 THEN "Mistake"
       ELSE "Blunder"

\* getCp of a multipv item
ItemCp(item) == IF item.t = "mate" THEN mateToScore(item.v) ELSE item.v
Rank1(pvList) == {n \in 1 .. Len(pvList) : pvList[n].rank = 1}
Alternatives(pvList) == {n \in 1 .. Len(pvList) : pvList[n].rank # 1}

\* onlyMove: the played move is the top line and every other line loses >= 150
OnlyMove(pvList, isTop) ==
    /\ isTop
    /\ Len(pvList) >= 2
    /\ Rank1(pvList) # {}
    /\ Alternatives(pvList) # {}
    /\ \A n \in Alternatives(pvList) :
          ItemCp(pvList[SetMin(Rank1(pvList))]) - ItemCp(pvList[n]) >= 150

\* the tag annotations gives move i, played from fen with the evaluations best
\* (before) and after, both present
AnnotationTag(fen, best, after, playedSanRaw) ==
    LET bestCp == BestCp(best)
        playedCp == PlayedCp(after)
        tag0 == classifyMoveByDelta(bestCp, playedCp,
                                    best.t = "mate" /\ Sign(best.v) > 0,
                                    DeltaMateForMover(best, after))
        bestUci == TopUci(best)
        bestSan == normalizeSan(IF bestUci # NullStr THEN uciToSan(fen, bestUci)
                                ELSE NullSan)
        playedSan == normalizeSan(playedSanRaw)
        isTop == bestSan.mv # NullStr /\ playedSan.mv # NullStr /\ playedSan = bestSan
        d == MoveOf(fen, playedSan)
        movedType == getMovedPieceType(d)
        officer == movedType \notin {"null", "p", "k"}
        sacLoss == offeredSacrificeLossMagnitude(d)
        worstLoss == worstImmediateCaptureLoss(d)
        \* played move equals engine best: Best, or Brilliant for a piece sacrifice
        tag1 == IF isTop
                THEN IF officer /\ QualifiesAsSacrifice(movedType, sacLoss)
                     THEN "Brilliant" ELSE "Best"
                ELSE tag0
        \* secondary upgrade: a qualifying sacrifice within 20cp of the top line
        tag2 == IF /\ tag1 # "Brilliant" /\ playedSan.mv # NullStr /\ officer
                   /\ QualifiesAsSacrifice(movedType, sacLoss)
                   /\ bestCp - playedCp <= 20
                THEN "Brilliant" ELSE tag1
        tag3 == IF OnlyMove(best.multipv, isTop) /\ tag2 \notin {"Brilliant", "Best"}
                THEN "Great" ELSE tag2
        \* offer on the target square with a checking answer
        tag4 == IF /\ tag3 # "Brilliant" /\ isTop /\ officer
                   /\ hasOpponentCaptureOnTarget(d)
                   /\ moverHasImmediateCheckAfterTargetCapture(d)
                THEN "Brilliant" ELSE tag3
        \* knight offers
        tag5 == IF /\ tag4 # "Brilliant" /\ isTop /\ movedType = "n"
                   /\ hasOpponentCaptureOnTarget(d)
                   /\ sacLoss # NullNum /\ sacLoss < 0 /\ bestCp > -50
                THEN "Brilliant" ELSE tag4
        \* worst immediate capture anywhere
        tag6 == IF /\ tag5 # "Brilliant" /\ isTop /\ officer
                   /\ worstLoss # NullNum /\ QualifiesAsSacrifice(movedType, worstLoss)
                THEN "Brilliant" ELSE tag5
    IN tag6

\* the moves annotations and playerStats look at: both adjacent evaluations present
JudgedWithNullAfter ==
    {i \in 0 .. Len(fens) - 2 : IsEval(Get(evals, i)) /\ Has(evals, i + 1)}
Judged == {i \in 0 .. Len(fens) - 2 : IsEval(Get(evals, i)) /\ IsEval(Get(evals, i + 1))}
PlayedSan(i) == IF HasIndex(sans, i) THEN At(sans, i) ELSE NullSan

\* the annotations memo: ann[i + 1].tag
annotations ==
    [n \in {i + 1 : i \in Judged} |->
        AnnotationTag(At(fens, n - 1), evals[n - 1], evals[n], PlayedSan(n - 1))]

(***************************************************************************)
(* Accuracy aggregator: the per-move accuracy of playerStats, in percent   *)
(* rounded down.                                                           *)
(***************************************************************************)
\* floor of max(0, 100 - 0.45 * cpLoss^0.88) * (0.7 + 0.3 * exp(-(min(|bestCp|, 200) / 120)^2))
\* at the losses and evaluations of the model
CurveAccuracy(cpLoss, bestCp) ==
    LET e == Min2(Abs(bestCp), 200)
        col == IF e = 0 THEN 1 ELSE IF e = 30 THEN 2 ELSE 3
    IN IF cpLoss >= 465 THEN 0
       ELSE CASE cpLoss = 30 -> <<91, 89, 65>>[col]
              [] cpLoss = 60 -> <<83, 81, 59>>[col]
              [] cpLoss = 370 -> <<18, 17, 13>>[col]
              [] cpLoss = 400 -> <<12, 12, 8>>[col]
              [] cpLoss = 430 -> <<6, 6, 4>>[col]

\* played SAN equals the SAN of PV#1, or of a line within 10cp of PV#1
ForcedPerfectNever(fen, best, playedSan) == FALSE
ForcedPerfectBySan(fen, best, playedSan) ==
    LET pvList == best.multipv
        pv1Uci == TopUci(best)
        pv1San == IF pv1Uci # NullStr THEN uciToSan(fen, pv1Uci) ELSE NullSan
    IN \/ pv1San.mv # NullStr /\ playedSan.mv # NullStr /\ playedSan = pv1San
       \/ /\ Rank1(pvList) # {}
          /\ \E n \in Alternatives(pvList) :
                /\ Abs(ItemCp(pvList[SetMin(Rank1(pvList))]) - ItemCp(pvList[n])) <= 10
                /\ pvList[n].uci # NullStr
                /\ uciToSan(fen, pvList[n].uci).mv # NullStr
                /\ playedSan.mv # NullStr
                /\ playedSan = uciToSan(fen, pvList[n].uci)

\* the move brings the mate against the mover nearer
AcceleratesMateAgainstMover(best, after) ==
    /\ best.t = "mate" /\ Sign(best.v) < 0
    /\ after.t = "mate" /\ Sign(after.v) > 0
    /\ Abs(after.v) < Abs(best.v)

MoveAccuracyCapsAtFifty(fen, best, after, playedSan) ==
    LET bestCp == BestCp(best)
        cpLoss == Max2(0, bestCp - PlayedCp(after))
        forcedPerfect ==
            \/ /\ ForcedPerfectBySan(fen, best, playedSan)
               /\ ~AcceleratesMateAgainstMover(best, after)
            \/ cpLoss <= 10
    IN IF forcedPerfect THEN 100
       ELSE IF after.t = "mate" /\ after.v = 0 THEN 100
       ELSE IF best.t = "mate" /\ Sign(best.v) > 0 THEN 50
       ELSE IF MoveOf(fen, playedSan).capture /\ cpLoss <= 30
       THEN Max2(CurveAccuracy(cpLoss, bestCp), 95)
       ELSE CurveAccuracy(cpLoss, bestCp)

MoveAccuracy(fen, best, after, playedSan) ==
    LET bestCp == BestCp(best)
        cpLoss == Max2(0, bestCp - PlayedCp(after))
        forcedPerfect ==
            \/ /\ ForcedPerfectBySan(fen, best, playedSan)
               /\ ~AcceleratesMateAgainstMover(best, after)
            \/ cpLoss <= 10
    IN IF forcedPerfect THEN 100
       ELSE IF after.t = "mate" /\ after.v = 0 THEN 100
       ELSE IF best.t = "mate" /\ Sign(best.v) > 0 THEN 30
       ELSE IF MoveOf(fen, playedSan).capture /\ cpLoss <= 30
       THEN Max2(CurveAccuracy(cpLoss, bestCp), 95)
       ELSE CurveAccuracy(cpLoss, bestCp)

\* the playerStats memo: the accuracy added for move i + 1
playerStats ==
    [n \in {i + 1 : i \in Judged} |->
        MoveAccuracy(At(fens, n - 1), evals[n - 1], evals[n], PlayedSan(n - 1))]

\* a render computes the memos from fens, evals and sans
RenderAnnotations ==
    /\ ~cls.annDone
    /\ cls' = [cls EXCEPT !.annDone = TRUE, !.ann = annotations]
    /\ UNCHANGED <<candidateIndex, timeoutToken, loadingTimeout, workerRef, alive,
                   handshake, engineReady, fens, sans, idx, evals, thinking,
                   analyzeProgress, pendingAnalyze, error, cache, handlers, engineQ,
                   goCount, runs, curs, micro>>

RenderPlayerStats ==
    /\ ~cls.statsDone
    /\ cls' = [cls EXCEPT !.statsDone = TRUE, !.stats = playerStats]
    /\ UNCHANGED <<candidateIndex, timeoutToken, loadingTimeout, workerRef, alive,
                   handshake, engineReady, fens, sans, idx, evals, thinking,
                   analyzeProgress, pendingAnalyze, error, cache, handlers, engineQ,
                   goCount, runs, curs, micro>>

(***************************************************************************)
(* The specification of the orchestration.                                 *)
(***************************************************************************)
ClsIdle == [annDone |-> FALSE, ann |-> EmptyMap, statsDone |-> FALSE, stats |-> EmptyMap]

InitSession ==
    /\ candidateIndex = 0
    /\ timeoutToken = 1
    /\ loadingTimeout = 1
    /\ workerRef = 1
    /\ alive = {1}
    /\ handshake = [w \in 1 .. NumCandidates |-> IF w = 1 THEN "uci" ELSE "none"]
    /\ engineReady = FALSE

InitApp ==
    /\ fens = <<>> /\ sans = <<>> /\ idx = 0
    /\ evals = EmptyMap
    /\ thinking = FALSE
    /\ analyzeProgress = <<0, 1>>
    /\ pendingAnalyze = NoPending
    /\ error = ""
    /\ cache = EmptyMap
    /\ handlers = <<>>
    /\ engineQ = [w \in 1 .. NumCandidates |-> <<>>]
    /\ goCount = EmptyMap
    /\ runs = <<>> /\ curs = 0 /\ micro = <<>>

Init == InitSession /\ InitApp /\ cls = ClsIdle

Next ==
    \/ \E w \in Workers, m \in Messages : OnMessage(w, m)
    \/ \E w \in Workers : WorkerError(w)
    \/ WatchdogFires
    \/ \E w \in Workers : EngineInfo(w)
    \/ \E w \in Workers : EngineBestmove(w)
    \/ \E r \in 1 .. Len(runs) : RunResume(r)
    \/ CurResume
    \/ \E g \in Games : HandleQuickAnalyze(g)
    \/ \E g \in Games : HandleDeepAnalyze(g)
    \/ \E g \in Games : HandleAnalyze(g)
    \/ Len(runs) < MaxRuns /\ RequestAnalyzeAll
    \/ RequestAnalyzeCurrent
    \/ FlushPending
    \/ \E n \in 0 .. 1 : navigateToPosition(n)

Spec == Init /\ [][Next]_vars

(***************************************************************************)
(* The specification of the classifier: one judged move.  The state is the *)
(* one an analysis of a one-move game leaves behind: the engine is ready,  *)
(* fens and sans hold the game, and evals holds what the engine reported   *)
(* for the two positions (or mate 0 for a checkmated one).  The memos are  *)
(* then computed by a render.                                              *)
(***************************************************************************)
ClsBestScores == {Cp(-400), Cp(-30), Cp(0), Cp(30), Cp(400),
                  Mate(-3), Mate(-1), Mate(1), Mate(3)}
ClsAfterScores == ClsBestScores
\* the second line of the pre-move evaluation: none, near the top line, far below
ClsSecondScores == {NullScore, Cp(25), Cp(-200)}
NoLines == [mpv |-> EmptyMap, cur |-> NullScore]

\* what analyzeFenOnce resolves with after the given info lines and bestmove
EngineEval(top, topUci, second, secondUci) ==
    BuildResult(HandleInfo(HandleInfo(NoLines, InfoLine(1, top, topUci)),
                           InfoLine(2, second, secondUci)),
                topUci)

ClsBestEvals ==
    {EngineEval(sc, ClsMove(0).uci, sc2, ClsAlt.uci) : sc \in ClsBestScores,
                                                       sc2 \in ClsSecondScores}
    \cup {EngineEval(sc, ClsAlt.uci, sc2, ClsMove(0).uci) : sc \in ClsBestScores,
                                                           sc2 \in ClsSecondScores}
ClsAfterEvals(k) ==
    IF ClsMates(k)
    THEN {[t |-> "mate", v |-> 0, bestmoveUci |-> NullStr, multipv |-> <<>>]}
    ELSE {EngineEval(sc, ClsAlt.uci, NullScore, NullStr) : sc \in ClsAfterScores}

InitClassify ==
    /\ candidateIndex = 0
    /\ timeoutToken = 1
    /\ loadingTimeout = 0
    /\ workerRef = 1
    /\ alive = {1}
    /\ handshake = [w \in 1 .. NumCandidates |-> IF w = 1 THEN "uciok" ELSE "none"]
    /\ engineReady = TRUE
    /\ \E k \in 0 .. ClsMoveCount - 1 :
          /\ fens = <<ClsBase + 2 * k, ClsBase + 2 * k + 1>>
          /\ sans = <<ClsMove(k).san>>
          /\ \E best \in ClsBestEvals : \E after \in ClsAfterEvals(k) :
                evals = (0 :> best) @@ (1 :> after)
    /\ idx = 0
    /\ thinking = FALSE
    /\ analyzeProgress = <<2, 2>>
    /\ pendingAnalyze = NoPending
    /\ error = ""
    /\ cache = EmptyMap
    /\ handlers = <<>>
    /\ engineQ = [w \in 1 .. NumCandidates |-> <<>>]
    /\ goCount = EmptyMap
    /\ runs = <<>> /\ curs = 0 /\ micro = <<>>
    /\ cls = ClsIdle

NextClassify == RenderAnnotations \/ RenderPlayerStats

SpecClassify == InitClassify /\ [][NextClassify]_vars

(***************************************************************************)
(* The specification of the tags: one judged or unjudged move of a         *)
(* two-position game, over the scores at which classifyMoveByDelta and the *)
(* upgrade rules change their answer.  The move is a knight move that      *)
(* offers nothing or a queen the opponent can take for nothing; the        *)
(* pre-move evaluation names it as the top line or as the second line;     *)
(* either evaluation may be missing or null, as an unfinished or failed    *)
(* search leaves it.                                                       *)
(***************************************************************************)
TagMoves == {1, 10}
TagBestScores == {Cp(0), Cp(299), Cp(300), Mate(1), Mate(2), Mate(-2)}
TagAfterCps == {-301, -300, -250, -51, -50, -11, -10, -1, 0, 10, 11, 20, 21, 50, 51,
                150, 151, 300, 301}
TagAfterMates == {-12, -11, -8, -7, -5, -4, -3, -2, -1, 1}
TagAfterScores == {Cp(x) : x \in TagAfterCps} \cup {Mate(x) : x \in TagAfterMates}
\* the second line: none, or 150 or 149 centipawns below a top line of 0
TagSecondScores == {NullScore, Cp(-150), Cp(-149)}

TagBestEvals ==
    {EngineEval(sc, ClsMove(0).uci, sc2, ClsAlt.uci) : sc \in TagBestScores,
                                                       sc2 \in TagSecondScores}
    \cup {EngineEval(sc, ClsAlt.uci, sc2, ClsMove(0).uci) : sc \in TagBestScores,
                                                           sc2 \in TagSecondScores}
TagAfterEvals == {EngineEval(sc, ClsAlt.uci, NullScore, NullStr) : sc \in TagAfterScores}

\* the evaluation maps of the two positions: both present, or one or both of
\* them absent or null
TagEvalMaps ==
    {(0 :> best) @@ (1 :> after) : best \in TagBestEvals, after \in TagAfterEvals}
    \cup {(0 :> best) : best \in TagBestEvals}
    \cup {(0 :> best) @@ (1 :> NullEval) : best \in TagBestEvals}
    \cup {(1 :> after) : after \in TagAfterEvals}
    \cup {(0 :> NullEval) @@ (1 :> after) : after \in TagAfterEvals}
    \cup {EmptyMap}

InitTags ==
    /\ candidateIndex = 0
    /\ timeoutToken = 1
    /\ loadingTimeout = 0
    /\ workerRef = 1
    /\ alive = {1}
    /\ handshake = [w \in 1 .. NumCandidates |-> IF w = 1 THEN "uciok" ELSE "none"]
    /\ engineReady = TRUE
    /\ \E k \in TagMoves :
          /\ fens = <<ClsBase + 2 * k, ClsBase + 2 * k + 1>>
          /\ sans = <<ClsMove(k).san>>
    /\ evals \in TagEvalMaps
    /\ idx = 0
    /\ thinking = FALSE
    /\ analyzeProgress = <<2, 2>>
    /\ pendingAnalyze = NoPending
    /\ error = ""
    /\ cache = EmptyMap
    /\ handlers = <<>>
    /\ engineQ = [w \in 1 .. NumCandidates |-> <<>>]
    /\ goCount = EmptyMap
    /\ runs = <<>> /\ curs = 0 /\ micro = <<>>
    /\ cls = ClsIdle

NextTags == RenderAnnotations

SpecTags == InitTags /\ [][NextTags]_vars

(***************************************************************************)
(* The specification of the decoder: the Quick, Deep and Analyze handlers  *)
(* on every game text of PgnTexts, from an application that holds nothing  *)
(* or an earlier game with some of its evaluations, the engine ready or    *)
(* not yet.                                                                *)
(***************************************************************************)
PriorGames == Games \cup {Pgn("none", FALSE, TRUE, <<"Nc3", "Nf6">>)}
PriorEval == EngineEval(Cp(LineCp), MvC.uci, NullScore, NullStr)
PriorEvalMaps ==
    {EmptyMap, (0 :> PriorEval), (0 :> PriorEval) @@ (1 :> NullEval),
     (0 :> PriorEval) @@ (1 :> PriorEval)}

InitDecode ==
    /\ candidateIndex = 0
    /\ timeoutToken = 1
    /\ workerRef = 1
    /\ alive = {1}
    /\ \E ready \in BOOLEAN :
          /\ engineReady = ready
          /\ loadingTimeout = IF ready THEN 0 ELSE 1
          /\ handshake = [w \in 1 .. NumCandidates |->
                            IF w # 1 THEN "none" ELSE IF ready THEN "uciok" ELSE "uci"]
    /\ \/ fens = <<>> /\ sans = <<>> /\ idx = 0 /\ evals = EmptyMap
       \/ \E g \in PriorGames :
             /\ fens = GameFens(g)
             /\ sans = GameSans(g)
             /\ idx \in 0 .. Len(GameFens(g)) - 1
             /\ evals \in PriorEvalMaps
    /\ thinking = FALSE
    /\ analyzeProgress = <<0, 1>>
    /\ pendingAnalyze = NoPending
    /\ error = ""
    /\ cache = EmptyMap
    /\ handlers = <<>>
    /\ engineQ = [w \in 1 .. NumCandidates |-> <<>>]
    /\ goCount = EmptyMap
    /\ runs = <<>> /\ curs = 0 /\ micro = <<>>
    /\ cls = ClsIdle

NextDecode ==
    \/ \E g \in PgnTexts : HandleQuickAnalyze(g)
    \/ \E g \in PgnTexts : HandleDeepAnalyze(g)
    \/ \E g \in PgnTexts : HandleAnalyze(g)

SpecDecode == InitDecode /\ [][NextDecode]_vars

(***************************************************************************)
(* Session specification: the engine session alone, with a longer          *)
(* candidate list and the error events of terminated workers.              *)
(***************************************************************************)
SessionCandidates == 3

InitSessionOnly ==
    /\ candidateIndex = 0
    /\ timeoutToken = 1
    /\ loadingTimeout = 1
    /\ workerRef = 1
    /\ alive = {1}
    /\ handshake = [w \in 1 .. SessionCandidates |-> IF w = 1 THEN "uci" ELSE "none"]
    /\ engineReady = FALSE
    /\ fens = <<>> /\ sans = <<>> /\ idx = 0
    /\ evals = EmptyMap
    /\ thinking = FALSE
    /\ analyzeProgress = <<0, 1>>
    /\ pendingAnalyze = NoPending
    /\ error = ""
    /\ cache = EmptyMap
    /\ handlers = <<>>
    /\ engineQ = [w \in 1 .. SessionCandidates |-> <<>>]
    /\ goCount = EmptyMap
    /\ runs = <<>> /\ curs = 0 /\ micro = <<>>
    /\ cls = ClsIdle

NextSession ==
    \/ \E w \in Workers, m \in Messages : OnMessage(w, m)
    \/ \E w \in Workers : WorkerError(w)
    \/ \E w \in Workers : StaleWorkerError(w)
    \/ WatchdogFires

SpecSession == InitSessionOnly /\ [][NextSession]_vars

(***************************************************************************)
(* Mate score specification: two mate scores, and a step that maps both    *)
(* with mateToScore.                                                       *)
(***************************************************************************)
\* the longest mate the engine announces
MaxMate == 101
MateScores == -MaxMate .. MaxMate

InitMate ==
    /\ candidateIndex = 0
    /\ timeoutToken = 1
    /\ loadingTimeout = 0
    /\ workerRef = 1
    /\ alive = {1}
    /\ handshake = [w \in 1 .. NumCandidates |-> IF w = 1 THEN "uciok" ELSE "none"]
    /\ engineReady = TRUE
    /\ fens = <<>> /\ sans = <<>> /\ idx = 0
    /\ evals = EmptyMap
    /\ thinking = FALSE
    /\ analyzeProgress = <<0, 1>>
    /\ pendingAnalyze = NoPending
    /\ error = ""
    /\ cache = EmptyMap
    /\ handlers = <<>>
    /\ engineQ = [w \in 1 .. NumCandidates |-> <<>>]
    /\ goCount = EmptyMap
    /\ runs = <<>> /\ curs = 0 /\ micro = <<>>
    /\ \E a \in MateScores, b \in MateScores :
          cls = [a |-> a, b |-> b, done |-> FALSE, scoreA |-> 0, scoreB |-> 0]

ScoreMates ==
    /\ ~cls.done
    /\ cls' = [cls EXCEPT !.done = TRUE, !.scoreA = mateToScore(cls.a),
                          !.scoreB = mateToScore(cls.b)]
    /\ UNCHANGED <<candidateIndex, timeoutToken, loadingTimeout, workerRef, alive,
                   handshake, engineReady, fens, sans, idx, evals, thinking,
                   analyzeProgress, pendingAnalyze, error, cache, handlers, engineQ,
                   goCount, runs, curs, micro>>

NextMate == ScoreMates

SpecMate == InitMate /\ [][NextMate]_vars

(***************************************************************************)
(* Channel specification: a ready engine that reports several variations,  *)
(* and requestAnalyzeAll called again while a run is in flight.            *)
(***************************************************************************)
\* runs started without waiting for the previous one
MaxOverlap == 2
\* info lines per search
MaxChannelInfo == 2
\* the lines a search can report: for each legal move a rank-1 line and a rank-2
\* line with a lower score, a scored line without multipv key or pv, and a line
\* without a score (currmove)
ChannelLines(fen, p) ==
    {InfoLine(1, Cp(LineCp + p.dp), m.uci) : m \in LegalMoves(fen)}
    \cup {InfoLine(2, Cp(-LineCp), m.uci) : m \in LegalMoves(fen)}
    \cup {InfoLine(0, Cp(0), NullStr), InfoLine(0, NullScore, NullStr)}

\* an info line of the search at the head of the queue, seen by every listener; the
\* engine reports a variation of rank 2 only after one of rank 1, for another move
ChannelInfo(w) ==
    /\ micro = <<>>
    /\ w \in alive /\ handshake[w] = "uciok"
    /\ engineQ[w] # <<>>
    /\ Head(engineQ[w]).lines < MaxChannelInfo
    /\ \E line \in ChannelLines(Head(engineQ[w]).fen, Head(engineQ[w]).p) :
          /\ line.k = 2 => Head(engineQ[w]).last \notin {NullStr, line.pv}
          /\ engineQ' = [engineQ EXCEPT ![w] =
                 <<[Head(@) EXCEPT !.lines = @ + 1,
                                   !.last = IF line.k = 1 THEN line.pv ELSE @]>>
                 \o Tail(@)]
          /\ handlers' = [n \in 1 .. Len(handlers) |->
                 IF handlers[n].w = w
                 THEN [HandleInfo(handlers[n], line) EXCEPT !.seen = Append(@, line)]
                 ELSE handlers[n]]
    /\ UNCHANGED <<candidateIndex, timeoutToken, loadingTimeout, workerRef, alive,
                   handshake, engineReady, fens, sans, idx, evals, thinking,
                   analyzeProgress, pendingAnalyze, error, cache, goCount, runs, curs,
                   micro, cls>>

\* the engine has answered uci and a game is loaded: one move, then checkmate, so
\* that each pass of a run holds one search
ChannelGame == Pgn("none", FALSE, TRUE, <<"Qh5">>)
InitChannel ==
    /\ candidateIndex = 0
    /\ timeoutToken = 1
    /\ loadingTimeout = 0
    /\ workerRef = 1
    /\ alive = {1}
    /\ handshake = [w \in 1 .. NumCandidates |-> IF w = 1 THEN "uciok" ELSE "none"]
    /\ engineReady = TRUE
    /\ fens = GameFens(ChannelGame) /\ sans = GameSans(ChannelGame)
    /\ idx = 0
    /\ evals = EmptyMap
    /\ thinking = FALSE
    /\ analyzeProgress = <<0, 1>>
    /\ pendingAnalyze = NoPending
    /\ error = ""
    /\ cache = EmptyMap
    /\ handlers = <<>>
    /\ engineQ = [w \in 1 .. NumCandidates |-> <<>>]
    /\ goCount = EmptyMap
    /\ runs = <<>> /\ curs = 0 /\ micro = <<>>
    /\ cls = ClsIdle

NextChannel ==
    \/ Len(runs) < MaxOverlap /\ RequestAnalyzeAll
    \/ \E w \in Workers : ChannelInfo(w)
    \/ \E w \in Workers : EngineBestmove(w)
    \/ \E r \in 1 .. Len(runs) : RunResume(r)

SpecChannel == InitChannel /\ [][NextChannel]_vars

(***************************************************************************)
(* The evaluation channel with an engine that answers: every search the    *)
(* engine holds is eventually answered with a bestmove line, and every     *)
(* continuation in the microtask queue eventually runs.  The engine's info *)
(* lines are left to SpecChannel: they change what a search resolves with, *)
(* never whether it is answered.                                           *)
(***************************************************************************)
MaxLiveRuns == 3
NextLive ==
    \/ Len(runs) < MaxLiveRuns /\ RequestAnalyzeAll
    \/ \E w \in Workers : EngineBestmove(w)
    \/ \E r \in 1 .. Len(runs) : RunResume(r)

SpecLive ==
    /\ InitChannel
    /\ [][NextLive]_vars
    /\ WF_vars(\E w \in Workers : EngineBestmove(w))
    /\ WF_vars(\E r \in 1 .. Len(runs) : RunResume(r))

(***************************************************************************)
(* Properties of the orchestration (checked under Spec).                   *)
(***************************************************************************)
MateZero == [t |-> "mate", v |-> 0, bestmoveUci |-> NullStr, multipv |-> <<>>]
DoneRuns == {r \in 1 .. Len(runs) : runs[r].pc = "done"}
StalledRuns ==
    {r \in 1 .. Len(runs) :
        /\ runs[r].pc # "done"
        /\ \E n \in 1 .. Len(handlers) :
              handlers[n].owner = RunOwner(r) /\ handlers[n].w \notin alive}

\* C1: once a request with some (position, search parameters) has been answered
\* with an evaluation, no further go command is sent for the same position and
\* parameters: every later request with that key is answered from the cache.
C1_RepeatedRequestServedFromCache ==
    \A k \in DOMAIN goCount :
        goCount[k].first # 0 => goCount[k].n = goCount[k].first

C3_ProgressSurvivesEngineFailure ==
    \A r \in StalledRuns :
        (micro = <<>> /\ DOMAIN runs[r].next # {}) =>
            /\ ~thinking
            /\ \A i \in DOMAIN runs[r].next : Get(evals, i) = runs[r].next[i]

C5_SingleSearchInFlight == \A w \in Workers : Len(engineQ[w]) <= 1

\* C6: no go command is ever sent and no listener is ever added for a checkmated
\* position, and every request for one resolves with mate 0, no best move and no
\* lines, whatever its search parameters.
C6_CheckmateShortCircuit ==
    /\ \A k \in DOMAIN goCount : ~IsCheckmate(k[1])
    /\ \A n \in 1 .. Len(handlers) : ~IsCheckmate(handlers[n].fen)
    /\ \A w \in Workers : \A n \in 1 .. Len(engineQ[w]) : ~IsCheckmate(engineQ[w][n].fen)
    /\ \A n \in 1 .. Len(micro) : IsCheckmate(micro[n].fen) => micro[n].val = MateZero

\* a single-position request and a run's request for the checkmated position have
\* both resolved
C6_Witness ==
    /\ micro # <<>>
    /\ IsCheckmate(Head(micro).fen)
    /\ Head(micro).val = MateZero
    /\ Head(micro).owner.kind = "run"
    /\ \E i \in DOMAIN evals : IsCheckmate(At(fens, i)) /\ evals[i] = MateZero

(***************************************************************************)
(* Properties of the classifier (checked under SpecClassify).              *)
(***************************************************************************)
\* the move played from position i, as chess.js reports it
PlayedMove(i) == CHOOSE m \in LegalMoves(At(fens, i)) : m.san = At(sans, i)
\* the played move is the move of the top line of the pre-move evaluation
PlayedTop(i) ==
    /\ evals[i].bestmoveUci # NullStr
    /\ PlayedMove(i).uci = evals[i].bestmoveUci
\* the mover's material change after the opponent's capture on the target square
\* that costs the mover most, each followed by the mover's best recapture there
NetLoss(m) ==
    SetMin({IF r.recaps = {} THEN r.afterOpp ELSE SetMax(r.recaps) :
               r \in {x \in m.replies : x.onTarget}})
Offered(m) == \E r \in m.replies : r.onTarget
AtThreshold(m) ==
    /\ Offered(m)
    /\ \/ m.piece = "q" /\ NetLoss(m) <= -5
       \/ m.piece = "r" /\ NetLoss(m) <= -3
       \/ m.piece \in {"b", "n"} /\ NetLoss(m) <= -2

\* C7: a judged move after which the position is checkmate (the post-move
\* evaluation is mate 0) is tagged Best, whatever the pre-move evaluation and
\* its top line.
C7_MatingMoveIsBest ==
    cls.annDone =>
        \A i \in Judged :
            (IsCheckmate(At(fens, i + 1)) /\ evals[i + 1].t = "mate"
             /\ evals[i + 1].v = 0) => cls.ann[i + 1] = "Best"

\* a mating move that is not the top line, judged against a mate for the mover
\* and against a mate for the opponent
C7_Witness ==
    /\ cls.annDone
    /\ \E i \in Judged :
          /\ IsCheckmate(At(fens, i + 1)) /\ evals[i + 1].v = 0
          /\ evals[i].t = "mate" /\ evals[i].v = -3
          /\ ~PlayedTop(i)
          /\ cls.ann[i + 1] = "Best"

C9_TopLineSacrificeIsBrilliant ==
    cls.annDone =>
        \A i \in Judged :
            (PlayedTop(i) /\ AtThreshold(PlayedMove(i))) => cls.ann[i + 1] = "Brilliant"

\* a queen offered on the target square against a recapture that promotes to a
\* rook: exactly the queen's threshold
C9_Witness ==
    /\ cls.annDone
    /\ \E i \in Judged :
          /\ PlayedTop(i)
          /\ PlayedMove(i).piece = "q"
          /\ Offered(PlayedMove(i)) /\ NetLoss(PlayedMove(i)) = -5
          /\ cls.ann[i + 1] = "Brilliant"

\* C10: a judged queen move that equals the top line and whose net loss on the
\* target square is one pawn is tagged Best.
C10_SmallQueenLossIsBest ==
    cls.annDone =>
        \A i \in Judged :
            (/\ PlayedTop(i)
             /\ PlayedMove(i).piece = "q"
             /\ Offered(PlayedMove(i)) /\ NetLoss(PlayedMove(i)) = -1)
            => cls.ann[i + 1] = "Best"

(***************************************************************************)
(* Properties of the tags (checked under SpecTags unless said otherwise).  *)
(***************************************************************************)
\* both evaluations of move i + 1 assert a forced mate in the mover's favour
MoverMatesBeforeAndAfter(i) ==
    /\ evals[i].t = "mate" /\ evals[i].v > 0
    /\ evals[i + 1].t = "mate" /\ evals[i + 1].v <= 0
\* the change in mate distance: played distance minus best distance
MateDelay(i) == (-evals[i + 1].v) - evals[i].v
TagByDelay(d) ==
    IF d = 0 THEN "Best"
    ELSE IF d = 1 THEN "Excellent"
    ELSE IF d <= 3 THEN "Good"
    ELSE IF d <= 6 THEN "Inaccuracy"
    ELSE "Mistake"

MateSentinel(n) ==
    IF n > 0 THEN 100000 - 1000 * n ELSE IF n < 0 THEN -(100000 + 1000 * n) ELSE 0
\* the pre-move and the post-move evaluation from the mover's side
BestScore(i) ==
    IF evals[i].t = "mate" THEN MateSentinel(evals[i].v) ELSE evals[i].v
PlayedScore(i) ==
    IF evals[i + 1].t = "mate"
    THEN IF evals[i + 1].v = 0 THEN 100000 ELSE -MateSentinel(evals[i + 1].v)
    ELSE -evals[i + 1].v
Loss(i) == BestScore(i) - PlayedScore(i)
TagByLoss(loss) ==
    IF loss <= 10 THEN "Best"
    ELSE IF loss <= 20 THEN "Excellent"
    ELSE IF loss <= 50 THEN "Good"
    ELSE IF loss <= 150 THEN "Inaccuracy"
    ELSE IF loss <= 300 THEN "Mistake"
    ELSE "Blunder"
\* override (a): a swing from a clearly winning evaluation to a drawn or lost one
SwingsToLost(i) == BestScore(i) >= 300 /\ PlayedScore(i) <= 0
\* override (b): an advantage of 300 or a forced mate taken down to near-equal
Squanders(i) ==
    /\ BestScore(i) >= 300 \/ (evals[i].t = "mate" /\ evals[i].v > 0)
    /\ PlayedScore(i) <= 50

C14_SquanderedAdvantageIsMiss ==
    cls.annDone =>
        \A i \in Judged :
            (/\ ~PlayedTop(i) /\ Squanders(i)
             /\ Loss(i) <= 300 /\ ~SwingsToLost(i))
            => cls.ann[i + 1] = "Miss"

OnlyMoveWithin150(i) ==
    LET lines == evals[i].multipv
        score(l) == IF l.t = "mate" THEN MateSentinel(l.v) ELSE l.v
    IN /\ Len(lines) >= 2
       /\ \E n \in 1 .. Len(lines) : lines[n].rank = 1
       /\ \A n, m \in 1 .. Len(lines) :
             (lines[n].rank = 1 /\ lines[m].rank # 1)
             => score(lines[n]) - score(lines[m]) >= 150

\* C16 (checked under SpecTags): a judged move that is the top line, offers no
\* piece at or beyond its threshold, and is the only move within 150 centipawns
\* of the top line is tagged Great.
C16_OnlyMoveIsGreat ==
    cls.annDone =>
        \A i \in Judged :
            (/\ PlayedTop(i) /\ ~AtThreshold(PlayedMove(i))
             /\ OnlyMoveWithin150(i))
            => cls.ann[i + 1] = "Great"

\* the evaluation map holds an evaluation (not null) for position k
Evaluated(k) == k \in DOMAIN evals /\ evals[k].t \in {"cp", "mate"}

\* C17 (checked under SpecTags): move n has an annotation exactly when the
\* evaluations of positions n - 1 and n are both present, and an annotation is
\* one of the tags of the classifier.
C17_AnnotatedIffBothEvaluated ==
    cls.annDone =>
        /\ \A n \in 1 .. Len(fens) - 1 :
              n \in DOMAIN cls.ann <=> (Evaluated(n - 1) /\ Evaluated(n))
        /\ DOMAIN cls.ann \subseteq 1 .. Len(fens) - 1
        /\ \A n \in DOMAIN cls.ann :
              cls.ann[n] \in {"Best", "Excellent", "Good", "Inaccuracy", "Mistake",
                              "Blunder", "Miss", "Great", "Brilliant"}

\* a game whose first position is evaluated and whose second position holds
\* null, as a failed stable search leaves it: no annotation
C17_Witness ==
    /\ cls.annDone
    /\ Evaluated(0)
    /\ 1 \in DOMAIN evals /\ evals[1].t = "null"
    /\ cls.ann = EmptyMap

\* the watchdog of the active worker expired before the worker answered uci
WatchdogExpired ==
    /\ workerRef \in alive
    /\ handshake[workerRef] = "uci"
    /\ loadingTimeout = 0
\* every candidate has been tried and given up
Exhausted == candidateIndex >= NumCandidates
SessionFailed == WatchdogExpired \/ Exhausted

\* C18 (checked under Spec): once the session has failed, by an expired watchdog
\* or by exhaustion of the candidates, no later step makes the engine ready.
C18_FailedStaysFailed == [][SessionFailed => ~engineReady']_vars

\* a step that tears down the active worker or installs another one
Fallback ==
    \/ workerRef \in alive /\ workerRef \notin alive'
    \/ workerRef' # workerRef
    \/ candidateIndex' # candidateIndex

\* C19 (checked under Spec): a step that tears down the active worker advances the
\* candidate index by exactly one, leaves the old worker terminated and, if a
\* candidate remains, starts that candidate (the next in list order) as the only
\* live worker; the candidate index never decreases, a worker is only ever started
\* for the candidate just advanced to, and once no candidate remains the engine is
\* not ready and no worker is alive.
C19_FallbackAdvancesInOrder ==
    [][/\ candidateIndex' >= candidateIndex
       /\ alive' \ alive \subseteq {candidateIndex' + 1}
       /\ alive' # alive => candidateIndex' > candidateIndex
       /\ Fallback =>
            /\ workerRef \in alive
            /\ candidateIndex' = candidateIndex + 1
            /\ workerRef \notin alive'
            /\ IF candidateIndex' < NumCandidates
               THEN /\ workerRef' = candidateIndex' + 1
                    /\ alive' = {workerRef'}
                    /\ handshake'[workerRef'] = "uci"
                    /\ loadingTimeout' = timeoutToken' /\ timeoutToken' > timeoutToken
               ELSE workerRef' = workerRef
       /\ Exhausted' => (alive' = {} /\ ~engineReady')]_vars

\* the first candidate failed and the second one is running in its place
C19_Witness ==
    /\ candidateIndex = 1
    /\ workerRef = 2
    /\ alive = {2}
    /\ handshake[2] = "uci"

NoFallback == candidateIndex' = candidateIndex /\ alive' = alive /\ workerRef' = workerRef

NoLegalMove(text) == \A i \in DOMAIN text.body : text.body[i] \notin {"Qh5", "Nc3"}
HandlerStep(text) ==
    HandleQuickAnalyze(text) \/ HandleDeepAnalyze(text) \/ HandleAnalyze(text)
NothingCommitted ==
    /\ UNCHANGED <<fens, sans, idx, evals>>
    /\ UNCHANGED <<engineQ, goCount, handlers, runs, cache, thinking, pendingAnalyze>>

\* C21 (checked under SpecDecode): a handler step on a text without a legal move
\* reports an error and leaves the position list, the move list, the current
\* index and the evaluation map as they were, and sends nothing to the engine.
C21_FailedDecodeCommitsNothing ==
    [][\/ error' # "" /\ NothingCommitted
       \/ \A text \in PgnTexts : NoLegalMove(text) => ~HandlerStep(text)]_vars

\* an earlier game and its evaluations are still there after a failed decode
C21_Witness ==
    /\ error = DecodeErrorText
    /\ Len(fens) = 3 /\ Len(sans) = 2 /\ idx = 2
    /\ evals = (0 :> PriorEval) @@ (1 :> PriorEval)
    /\ runs = <<>>

\* the lists hold a game of at least one move: one position more than moves, the
\* initial position first, every next position the result of playing its move
WellFormedGame ==
    /\ Len(sans) >= 1
    /\ Len(fens) = Len(sans) + 1
    /\ fens[1] = StartPosition
    /\ \A i \in 1 .. Len(sans) :
          LET m == MoveOf(fens[i], sans[i])
          IN m # NoMove /\ fens[i + 1] = PositionAfter(fens[i], m.uci)

C24_CacheEntriesImmutable ==
    [][\A k \in DOMAIN cache : k \in DOMAIN cache' /\ cache'[k] = cache[k]]_vars

\* C25 (checked under Spec): a run changes the published evaluation map in one
\* step only, the one that ends it, and that step installs the map of the whole
\* run: every position the run obtained an evaluation for, and with a stable pass
\* an entry for every position of the list; no earlier step of the run, in any
\* pass, changes the map.
C25_RunPublishesInOneStep ==
    [][\/ evals' = evals
       \/ \A r \in 1 .. Len(runs) :
             RunResume(r) =>
                /\ runs[r].pc # "done" /\ runs'[r].pc = "done"
                /\ evals' = runs'[r].final
                /\ DOMAIN evals' \subseteq 0 .. Len(runs[r].fenList) - 1
                /\ runs[r].stable => DOMAIN evals' = 0 .. Len(runs[r].fenList) - 1]_vars

\* a run with a verification pass has ended and published both positions
C25_Witness ==
    /\ Len(runs) = 1
    /\ runs[1].pc = "done"
    /\ DOMAIN runs[1].deep # {}
    /\ evals = runs[1].final
    /\ DOMAIN evals = {0, 1}

(***************************************************************************)
(* Properties of the accuracy and of the tags under forced mates.          *)
(***************************************************************************)
\* the played move is a line of the pre-move evaluation other than the top line
\* whose score is within 10 centipawns of the top line's
PlayedNearEqualLine(i) ==
    LET pv == evals[i].multipv
    IN \E a \in 1 .. Len(pv), b \in 1 .. Len(pv) :
          /\ pv[a].rank = 1 /\ pv[b].rank # 1
          /\ pv[b].uci = PlayedMove(i).uci
          /\ Abs((IF pv[a].t = "mate" THEN MateSentinel(pv[a].v) ELSE pv[a].v)
                 - (IF pv[b].t = "mate" THEN MateSentinel(pv[b].v) ELSE pv[b].v)) <= 10
\* the pre-move evaluation is a forced mate for the mover and the move misses it
MissesForcedMate(i) ==
    /\ evals[i].t = "mate" /\ evals[i].v > 0
    /\ ~PlayedTop(i)
    /\ ~PlayedNearEqualLine(i)
    /\ Loss(i) > 10
    /\ ~(evals[i + 1].t = "mate" /\ evals[i + 1].v = 0)

\* C26 (checked under SpecClassify): a move that misses a forced mate of the mover
\* has a per-move accuracy of at most 30.
C26_MissedMateCapsAccuracy ==
    cls.statsDone =>
        \A n \in DOMAIN cls.stats : MissesForcedMate(n - 1) => cls.stats[n] <= 30

\* a capture off the top line, with a mate in 1 available and a level position
\* after it: accuracy 30
C26_Witness ==
    /\ cls.statsDone
    /\ 1 \in DOMAIN cls.stats
    /\ MissesForcedMate(0)
    /\ PlayedMove(0).capture
    /\ evals[0].v = 1 /\ evals[1].t = "cp" /\ evals[1].v = 0
    /\ cls.stats[1] = 30

RunPlayed(run, i) ==
    CHOOSE m \in LegalMoves(At(run.fenList, i)) :
        PositionAfter(At(run.fenList, i), m.uci) = At(run.fenList, i + 1)

\* C28 (checked under Spec): the verification pass searches position i again only
\* when the move played from i is a candidate piece sacrifice that is not the top
\* move of the current evaluation of i; when its search returns, the evaluation
\* of i is replaced exactly when the top move of the deeper result is the played
\* move, and the evaluation of no other position changes.
C28_VerificationTouchesOnlyConfirmedSacrifices ==
    [][\/ runs' = runs
       \/ \A r \in 1 .. Len(runs) :
             RunResume(r) =>
                /\ (runs'[r].pc = "deep" /\ (runs[r].pc # "deep" \/ runs'[r].i # runs[r].i)) =>
                      LET i == runs'[r].i
                          m == RunPlayed(runs[r], i)
                      IN /\ isStrictPieceSacrificeOffer(m)
                         /\ TopUci(runs'[r].final[i]) # m.uci
                /\ runs[r].pc = "deep" =>
                      LET i == runs[r].i
                          ev == Head(micro).val
                      IN /\ DOMAIN runs'[r].final = DOMAIN runs[r].final
                         /\ runs'[r].final[i] =
                               IF IsEval(ev) /\ TopUci(ev) = RunPlayed(runs[r], i).uci
                               THEN ev ELSE runs[r].final[i]
                         /\ \A j \in DOMAIN runs[r].final \ {i} :
                               runs'[r].final[j] = runs[r].final[j]]_vars

(***************************************************************************)
(* Properties of the result of a search (checked under SpecChannel).       *)
(***************************************************************************)
\* the lines of rank 1 a listener received, and the scored lines it received that
\* carry no multipv key (the primary line of an engine that reports one variation)
RankOneSeen(h) == {x \in DOMAIN h.seen : h.seen[x].k = 1}
PrimarySeen(h) == {x \in DOMAIN h.seen : h.seen[x].k = 0 /\ h.seen[x].sc.t # "null"}
\* the value the bestmove step of worker w resolves listener n with
ResultOf(w, n) == micro'[Cardinality({y \in OnWorker(w) : y <= n})].val
RankOneEntries(ev) == {x \in DOMAIN ev.multipv : ev.multipv[x].rank = 1}

C30_OnlyPrimaryScoreIsFallback ==
    [][\A w \in Workers : EngineBestmove(w) =>
          \A n \in OnWorker(w) :
             RankOneSeen(handlers[n]) = {} =>
                LET prim == PrimarySeen(handlers[n])
                    res == ResultOf(w, n)
                IN IF prim = {}
                   THEN ~IsEval(res)
                   ELSE /\ res.t = handlers[n].seen[SetMax(prim)].sc.t
                        /\ res.v = handlers[n].seen[SetMax(prim)].sc.v]_vars

(***************************************************************************)
(* Properties of the suspension of a search request (checked under Spec).  *)
(***************************************************************************)
\* the callers that wait on a listener, and the resolved promises of a caller
Waiting == {handlers[n].owner : n \in 1 .. Len(handlers)}
ResolvedFor(q, o) == {x \in 1 .. Len(q) : q[x].owner = o}
\* the bestmove line of the search at the head of worker w's queue arrives
BestmoveArrives(w) == engineQ[w] # <<>> /\ engineQ'[w] = Tail(engineQ[w])

\* C31 (checked under Spec): a caller that waits on a listener has no resolved
\* promise; its listener goes away only in a step in which the bestmove line of its
\* own search arrives, and that step resolves it exactly once; in every other
\* step it stays suspended.
C31_ResolvesOnceOnOwnBestmove ==
    [][\A n \in 1 .. Len(handlers) :
          LET h == handlers[n]
          IN /\ ResolvedFor(micro, h.owner) = {}
             /\ IF h.owner \in Waiting'
                THEN ResolvedFor(micro', h.owner) = {}
                ELSE /\ BestmoveArrives(h.w)
                     /\ Head(engineQ[h.w]).fen = h.fen
                     /\ Head(engineQ[h.w]).p = h.p
                     /\ Cardinality(ResolvedFor(micro', h.owner)) = 1]_vars

(***************************************************************************)
(* Properties of the engine resets of a run (checked under Spec).          *)
(***************************************************************************)
\* the searches run r has posted that the engine has not answered with bestmove
Unanswered(r) ==
    {<<w, x>> \in Workers \X (1 .. MaxRuns + MaxCur + 1) :
        x <= Len(engineQ[w]) /\ engineQ[w][x].owner = RunOwner(r)}

\* C32 (checked under Spec): a run whose stable pass runs has sent its second batch
\* of reset commands; the batch is sent in the step that leaves the first loop for
\* the stable pass, before the first search of the stable pass is posted and when
\* every search the run posted before has been answered with its bestmove line; no
\* step inside a pass sends one.
C32_ResetBetweenPassesOnly ==
    [][\A r \in 1 .. Len(runs) :
          /\ runs'[r].pc = "stable" => runs'[r].resets = 2
          /\ runs'[r].resets # runs[r].resets =>
                /\ runs[r].pc = "fast" /\ runs'[r].pc = "stable" /\ runs'[r].i = 0
                /\ runs[r].stab = EmptyMap
                /\ Unanswered(r) = {}]_vars

(***************************************************************************)
(* Properties of mateToScore (checked under SpecMate).                     *)
(***************************************************************************)
\* two mates for the same side, the first one nearer
NearerMate == Sign(cls.a) = Sign(cls.b) /\ Abs(cls.a) < Abs(cls.b)
SignKept == Sign(cls.scoreA) = Sign(cls.a) /\ Sign(cls.scoreB) = Sign(cls.b)

C35_OnlyLatestWatchdogActs ==
    [][\/ loadingTimeout' # 0
       \/ ~WatchdogFires
       \/ /\ loadingTimeout = timeoutToken
          /\ workerRef \in alive
          /\ handshake[workerRef] = "uci"
          /\ ~engineReady']_vars

\* the watchdog of the second attempt has fired: its worker is alive and has not
\* answered, no timer is armed and the engine is not ready
C35_Witness ==
    /\ candidateIndex = 1
    /\ workerRef = 2 /\ alive = {2}
    /\ handshake[2] = "uci"
    /\ loadingTimeout = 0 /\ timeoutToken = 2
    /\ ~engineReady

(***************************************************************************)
(* Properties of the moves a run reads (checked under Spec).               *)
(***************************************************************************)
\* C36 (checked under Spec): the move list a run reads in its verification pass
\* belongs to the game whose position list the run analyses: for every position i
\* with a successor it holds the move played from i to i + 1.
C36_RunReadsMovesOfItsGame ==
    \A r \in 1 .. Len(runs) :
       \A i \in 0 .. Len(runs[r].fenList) - 2 :
          /\ HasIndex(runs[r].sansC, i)
          /\ normalizeSan(At(runs[r].sansC, i))
                = normalizeSan(RunPlayed(runs[r], i).san)

IsEvalOf(ev, fen) ==
    IF getTerminalEval(fen).t # "null"
    THEN /\ ev.t = getTerminalEval(fen).t /\ ev.v = getTerminalEval(fen).v
         /\ ev.bestmoveUci = NullStr
    ELSE TopUci(ev) \in {m.uci : m \in LegalMoves(fen)}

\* C38 (checked under Spec): every evaluation in the published map sits at an index
\* of the loaded game and is an evaluation of the position at that index.
C38_EvalsBelongToLoadedGame ==
    \A i \in DOMAIN evals :
       IsEval(evals[i]) => HasIndex(fens, i) /\ IsEvalOf(evals[i], At(fens, i))

\* C39: with an engine that answers every submitted search (SpecLive), every
\* analyzeAll run eventually finishes; the step that finishes a run publishes
\* the run's evaluation map and sets the thinking flag to false; and the
\* thinking flag is true only while some analyzeAll run is in progress.
RunFinishes(r) ==
    /\ r \in 1 .. Len(runs)
    /\ runs[r].pc # "done"
    /\ runs'[r].pc = "done"
C39_RunsFinishAndThinkingTracksRuns ==
    /\ \A r \in 1 .. MaxLiveRuns : (Len(runs) >= r) ~> (Len(runs) >= r /\ runs[r].pc = "done")
    /\ [][\A r \in 1 .. MaxLiveRuns :
            RunFinishes(r) => evals' = runs'[r].final /\ ~thinking']_vars
    /\ [](thinking => \E r \in 1 .. Len(runs) : runs[r].pc # "done")
C39_Witness ==
    /\ Len(runs) = MaxLiveRuns
    /\ \A r \in 1 .. Len(runs) : runs[r].pc = "done"
    /\ evals = runs[Len(runs)].final
    /\ evals # EmptyMap
    /\ ~thinking

\* C40: a request made through handleAnalyze, requestAnalyzeAll or
\* requestAnalyzeCurrent while engineReady is false sends no engine command and
\* becomes the pending request, replacing an older one; the flush of the pending
\* request, which needs engineReady, starts that request once (one search of the
\* current position, or one run over the loaded positions when there are any)
\* and empties the slot; and the slot changes in no other way.
NothingStarted ==
    /\ engineQ' = engineQ /\ handlers' = handlers /\ goCount' = goCount
    /\ runs' = runs /\ curs' = curs
PendingStarted ==
    IF pendingAnalyze.type = "current"
    THEN /\ curs' = curs + 1
         /\ runs' = runs
    ELSE /\ curs' = curs
         /\ IF Len(fens) = 0
            THEN runs' = runs
            ELSE /\ Len(runs') = Len(runs) + 1
                 /\ runs'[Len(runs')].fenList = fens
                 /\ runs'[Len(runs')].depth = pendingAnalyze.depth
C40_PendingRequestStartedOnceWhenReady ==
    [][/\ ~engineReady /\ RequestAnalyzeAll
            => /\ pendingAnalyze' = [type |-> "all", depth |-> AnalyzeDepth]
               /\ NothingStarted
       /\ ~engineReady /\ RequestAnalyzeCurrent
            => /\ pendingAnalyze' = [type |-> "current", depth |-> CurrentDepth]
               /\ NothingStarted
       /\ \A g \in Games :
             ~engineReady /\ parsePgnToFens(g).ok /\ HandleAnalyze(g)
               => /\ pendingAnalyze' = [type |-> "all", depth |-> AnalyzeDepth]
                  /\ NothingStarted
       /\ FlushPending => pendingAnalyze' = NoPending /\ PendingStarted
       /\ pendingAnalyze' # pendingAnalyze
            => \/ ~engineReady /\ pendingAnalyze' # NoPending /\ NothingStarted
               \/ engineReady /\ pendingAnalyze' = NoPending /\ PendingStarted]_vars
C40_Witness ==
    /\ ~engineReady
    /\ pendingAnalyze = [type |-> "current", depth |-> CurrentDepth]
    /\ Len(fens) > 0
    /\ runs = <<>> /\ curs = 0
====
